---- MODULE Spec2Model ----
(***************************************************************************)
(* Quota-aware YouTube fetch service: the quota manager and rate limiter   *)
(* kept in the shared Django cache (api/utils), the call wrapper           *)
(* CachedYouTubeService._make_api_call, and the fetch-and-rank pipeline    *)
(* YouTubeService.fetch_channel_videos (api/services).                     *)
(***************************************************************************)
EXTENDS Integers, Sequences, FiniteSets, TLC

(***************************************************************************)
(* Bounds of the model.                                                    *)
(***************************************************************************)
NumCallers == 2       \* concurrent request threads
MaxTicks == 3         \* clock advances in one behaviour
MaxLimit == 2         \* largest configured daily_limit of the quota runs
MaxCost == 2          \* largest cost of one consume_quota call
MonthDays == 30       \* days of the calendar month the clock runs in
MaxPerSecond == 1     \* RateLimiter(max_per_second=...)
MaxPerMinute == 1     \* RateLimiter(max_per_minute=...)
MaxWanted == 2        \* largest max_videos and max_shorts of a request

(***************************************************************************)
(* Program constants.                                                      *)
(***************************************************************************)
ResetHourUTC == 8         \* now.replace(hour=8, ...)
ExpiryBuffer == 3600      \* timeout=int(seconds_until_reset) + 3600
DefaultTtl == 1800        \* ttl_map.get(endpoint, 1800)
HourlyTimeout == 3600     \* cache.set(hour_key, ..., timeout=3600)
SecondTimeout == 2        \* cache.set(second_key, ..., timeout=2)
MinuteTimeout == 61       \* cache.set(minute_key, ..., timeout=61)
SleepSeconds == 1         \* time.sleep(1)
ApiCost == 1              \* QUOTA_COSTS['videos.list']
CostChannelsList == 1     \* QUOTA_COSTS['channels.list']
CostPlaylistItems == 1    \* QUOTA_COSTS['playlistItems.list']
CostVideosList == 1       \* QUOTA_COSTS['videos.list']
CostSearchList == 100     \* QUOTA_COSTS['search.list']
DefaultDailyLimit == 10000 \* YOUTUBE_QUOTA_LIMIT
BatchSize == 50           \* video ids per videos.list request
ShortSeconds == 60        \* total_seconds <= 60
TrendHours == 3           \* hours_since_publish <= 3
BoostFactor == 10         \* trending_score = view_count * 10
TopTrending == 3          \* trending_videos_sorted[:3]

SecondsPerMinute == 60 * 1
SecondsPerHour == 60 * 60
SecondsPerDay == 24 * SecondsPerHour

Callers == 1..NumCallers
None == -1                \* Python None where an integer is expected

Max(a, b) == IF a >= b THEN a ELSE b
Min(a, b) == IF a <= b THEN a ELSE b

VARIABLES
  now,          \* datetime.now(timezone.utc), in seconds since 00:00:00 of day 1
  ticks,        \* number of clock advances so far
  cache,        \* django.core.cache: key -> [val, exp]
  daily_limit,  \* QuotaManager.daily_limit
  pc,           \* per thread: the statement it is about to execute
  loc,          \* per thread: the local variables of the running call
  sent,         \* times at which an upstream call was dispatched
  fpc,          \* fetch_channel_videos: the block it is about to execute
  req,          \* the request: max_videos, max_shorts and the settings read
  duration,     \* upstream: the duration in seconds of each video
  store,        \* all_videos_dict: video_id -> the video's record
  order,        \* all_videos_dict: the insertion order of its keys
  lists,        \* regular_videos, shorts, live_videos: lists of video ids
  result,       \* the dictionary fetch_channel_videos returns
  paid,         \* the paid upstream calls dispatched by the fetch
  batch,        \* YouTubeAnalyzerAPIView.post: channel_urls, results, errors
  rpc,          \* post and extract_channel_id: the block about to execute
  parse,        \* a parsing function: its argument and what it returned
  pager,        \* get_last_n_videos: its argument, locals and requests made
  resolver      \* extract_channel_id: its argument, locals and requests made

callvars == <<now, ticks, cache, daily_limit, pc, loc, sent>>
fetchvars == <<fpc, req, duration, store, order, lists, result, paid>>
viewvars == <<batch, rpc, resolver, parse, pager>>
vars == <<now, ticks, cache, daily_limit, pc, loc, sent,
          fpc, req, duration, store, order, lists, result, paid,
          batch, rpc, resolver, parse, pager>>

(***************************************************************************)
(* No batch request is being served and no reference is being resolved.    *)
(***************************************************************************)
NoBatch == [urls |-> <<>>, i |-> 0, results |-> <<>>, errors |-> <<>>,
            status |-> 0, total_channels_processed |-> 0,
            total_channels_failed |-> 0]
NoRes == [url |-> <<>>, caller |-> "none", handle |-> <<>>,
          channel_id |-> <<>>, use_search_api |-> FALSE, scrapes |-> 0,
          searches |-> 0, lookups |-> 0, trace |-> <<>>]
\* fn: the function called; arg: its argument; given: the duration or the
\* count the argument was written from; done, raised, short, count: whether
\* it returned, whether it raised, and what it returned
NoParse == [fn |-> "none", arg |-> <<>>, given |-> 0, done |-> FALSE,
            raised |-> FALSE, short |-> FALSE, count |-> 0]
\* at: the statement get_last_n_videos is about to execute; video_ids: the
\* length of the list video_ids; token: 'nextPageToken' in response;
\* requests: the playlistItems.list requests executed so far; returned: the
\* length of the list returned
NoPager == [max_results |-> 0, at |-> "none", video_ids |-> 0, page_num |-> 0,
            token |-> FALSE, requests |-> 0, returned |-> None]
ViewIdle ==
  /\ batch = NoBatch /\ rpc = "idle" /\ resolver = NoRes /\ parse = NoParse
  /\ pager = NoPager

(***************************************************************************)
(* The clock: datetime fields of an instant t.                             *)
(***************************************************************************)
DayOf(t) == (t \div SecondsPerDay) + 1
HourOf(t) == (t % SecondsPerDay) \div SecondsPerHour
At(day, hour, minute, second) ==
  (day - 1) * SecondsPerDay + hour * SecondsPerHour + minute * SecondsPerMinute + second
EndOfMonth == MonthDays * SecondsPerDay

(***************************************************************************)
(* django.core.cache: get with default and set with timeout.  An           *)
(* entry whose expiry has passed reads as absent.                          *)
(***************************************************************************)
CacheGet(c, t, k, default) ==
  IF k \in DOMAIN c /\ c[k].exp > t THEN c[k].val ELSE default

CacheSet(c, t, k, v, timeout) ==
  [x \in (DOMAIN c) \cup {k} |-> IF x = k THEN [val |-> v, exp |-> t + timeout] ELSE c[x]]

Unexpired(c, t) == [x \in {y \in DOMAIN c : c[y].exp > t} |-> c[x]]

EmptyCache == [x \in {} |-> [val |-> 0, exp |-> 0]]

(***************************************************************************)
(* QuotaManager                                                            *)
(***************************************************************************)
TodayKey(t) == <<"youtube_quota:daily", DayOf(t)>>
CurrentHourKey(t) == <<"youtube_quota:hourly", t \div SecondsPerHour>>

GetDailyQuotaUsed(c, t) == CacheGet(c, t, TodayKey(t), 0)

GetRemainingQuota(c, t, limit) == Max(0, limit - GetDailyQuotaUsed(c, t))

QuotaCanMakeRequest(c, t, limit, estimated_units) ==
  ~(GetDailyQuotaUsed(c, t) + estimated_units > limit)

NeverExceeds(new_used, limit) == FALSE

\* new_used > self.daily_limit
WouldExceed(new_used, limit) == new_used > limit

\* get_quota_status: percentage is kept as the exact fraction num / den
GetQuotaStatus(c, t, limit) ==
  [used |-> GetDailyQuotaUsed(c, t),
   limit |-> limit,
   remaining |-> GetRemainingQuota(c, t, limit),
   percentage |-> [num |-> GetDailyQuotaUsed(c, t) * 100, den |-> limit],
   can_make_requests |-> GetRemainingQuota(c, t, limit) > 0]

\* tomorrow_utc = now.replace(hour=8, minute=0, second=0, microsecond=0)
ResetToday(t) == At(DayOf(t), ResetHourUTC, 0, 0)

\* tomorrow_utc.replace(day=tomorrow_utc.day + 1) raises ValueError when the
\* month has no such day.
ReplaceDayRaises(t) == ResetToday(t) <= t /\ DayOf(t) + 1 > MonthDays

TomorrowUtc(t) ==
  IF ResetToday(t) <= t THEN ResetToday(t) + SecondsPerDay ELSE ResetToday(t)

SecondsUntilReset(t) == TomorrowUtc(t) - t

DailyTimeout(t) == SecondsUntilReset(t) + ExpiryBuffer

(***************************************************************************)
(* The data of a fetch.  Upstream, a video has a duration that does not    *)
(* change and statistics that each videos.list response reports anew.      *)
(***************************************************************************)
Ids == {"v1", "v2"}       \* the video ids of the upstream channel
ViewCounts == {1, 2}
Durations == {ShortSeconds, ShortSeconds + 1}

\* snippet.liveBroadcastContent, whether liveStreamingDetails is present, and
\* liveStreamingDetails.concurrentViewers
LiveStates ==
  { [lbc |-> "none", lsd |-> FALSE, cv |-> None],
    [lbc |-> "live", lsd |-> TRUE, cv |-> None],
    [lbc |-> "live", lsd |-> TRUE, cv |-> 1] }

StatItems == [views : ViewCounts, live : LiveStates]

EmptyStore == [x \in {} |-> 0]
NoLists == [regular_videos |-> <<>>, shorts |-> <<>>, live_videos |-> <<>>,
            trending_videos |-> <<>>, trending_shorts |-> <<>>]
NoRequest == [max_videos |-> 0, max_shorts |-> 0, use_search_api |-> FALSE,
              search_failed |-> FALSE,
              real_time_live |-> FALSE, uploads |-> FALSE]
NoResult == [at |-> "none", videos |-> <<>>, shorts |-> <<>>, live_videos |-> <<>>,
             trending_videos |-> <<>>, trending_shorts |-> <<>>, error |-> "none",
             ended |-> {}]
\* In a result, ended observes the real-time live refresh: the videos left in
\* the live slot that upstream reported as no longer live when it ran.
\* units: the declared cost of the paid calls dispatched; unadmitted: how many
\* of them were dispatched without the quota manager admitting their cost;
\* search: how many of them were search.list calls
NoPaid == [units |-> 0, unadmitted |-> 0, search |-> 0]

FetchIdle ==
  /\ fpc = "idle"
  /\ req = NoRequest
  /\ duration = [i \in Ids |-> 0]
  /\ store = EmptyStore
  /\ order = <<>>
  /\ lists = NoLists
  /\ result = NoResult
  /\ paid = NoPaid

(***************************************************************************)
(* The local variables of a call, and the initial state.                   *)
(***************************************************************************)
\* op, units: the call and its cost; key, current_used, new_used, hourly_used,
\* got, wake: locals of the running function; result: how the call ended;
\* consumed: what consume_quota returned ("raised": it raised ValueError).
\* The remaining fields observe the call: wrote/grew the daily counter write and
\* the amount it added to the stored value, ok1/ok2 the two gate checks of
\* wait_if_needed, dispatched/saturated the upstream call and whether a rate
\* window was full when it was made, inc_second/inc_minute what record_request
\* added to each stored window counter, calls the calls the thread has made,
\* bypass_cache the argument of _make_api_call and hit whether the cache held
\* an unexpired response for the call's endpoint and params when it was made.
NoCall ==
  [op |-> "none", units |-> 0, key |-> <<"", 0>>, current_used |-> 0,
   new_used |-> 0, hourly_used |-> 0, got |-> 0, wake |-> 0, result |-> "none",
   consumed |-> "none",
   wrote |-> FALSE, grew |-> 0, ok1 |-> TRUE, ok2 |-> TRUE,
   dispatched |-> FALSE, saturated |-> FALSE, inc_second |-> 0,
   inc_minute |-> 0, calls |-> 0, bypass_cache |-> TRUE, hit |-> FALSE]

QuotaStartTimes == {At(1, 7, 0, 0), At(1, 22, 0, 0), At(MonthDays, 7, 0, 0)}

InitQuota ==
  /\ now \in QuotaStartTimes
  /\ ticks = 0
  /\ cache = EmptyCache
  /\ daily_limit \in 1..MaxLimit
  /\ pc = [p \in Callers |-> "idle"]
  /\ loc = [p \in Callers |-> NoCall]
  /\ sent = <<>>
  /\ ViewIdle
  /\ FetchIdle

(***************************************************************************)
(* The clock advances by d seconds; expired entries leave the cache.       *)
(***************************************************************************)
Tick(d) ==
  /\ ticks < MaxTicks
  /\ now + d < EndOfMonth
  /\ now' = now + d
  /\ ticks' = ticks + 1
  /\ cache' = Unexpired(cache, now + d)
  /\ UNCHANGED <<daily_limit, pc, loc, sent, fetchvars, viewvars>>

TickHour == Tick(SecondsPerHour)
TickSecond == Tick(1)

(***************************************************************************)
(* QuotaManager.consume_quota(units), one cache operation per step.        *)
(***************************************************************************)
\* A finished call keeps what describes its outcome; its other locals are gone.
Finished(l, res) ==
  [l EXCEPT !.result = res, !.key = NoCall.key, !.new_used = 0,
            !.hourly_used = 0, !.got = 0, !.wake = 0]

\* consume_quota returns True ("true") or False ("false"), or raises.  Called
\* on its own that ends the call; inside _make_api_call the return value is
\* only logged (lines 81-82) and an exception is re-raised (lines 94-100).
ConsumeReturn(l, outcome) ==
  LET m == [l EXCEPT !.consumed = outcome]
  IN IF l.op = "consume" THEN Finished(m, outcome)
     ELSE IF outcome = "raised" THEN Finished(m, "error")
     ELSE [m EXCEPT !.key = NoCall.key, !.new_used = 0, !.hourly_used = 0]

\* Where a thread continues when consume_quota returns or raises.
AfterConsume(p, outcome) ==
  IF loc[p].op = "consume" THEN "done"
  ELSE IF outcome = "raised" THEN "done" ELSE "rec_second_get"

CallConsume(p, u) ==
  /\ pc[p] = "idle"
  /\ pc' = [pc EXCEPT ![p] = "cq_read"]
  /\ loc' = [loc EXCEPT ![p] = [NoCall EXCEPT !.op = "consume", !.units = u, !.calls = 1]]
  /\ UNCHANGED <<now, ticks, cache, daily_limit, sent, fetchvars, viewvars>>

\* lines 55-61: read the counter, return False when the limit would be passed
ConsumeRead(p) ==
  /\ pc[p] = "cq_read"
  /\ LET key == TodayKey(now)
         current_used == CacheGet(cache, now, key, 0)
         new_used == current_used + loc[p].units
     IN IF WouldExceed(new_used, daily_limit)
        THEN /\ pc' = [pc EXCEPT ![p] = AfterConsume(p, "false")]
             /\ loc' = [loc EXCEPT ![p] = ConsumeReturn([loc[p] EXCEPT
                                     !.current_used = current_used], "false")]
        ELSE /\ pc' = [pc EXCEPT ![p] = "cq_set"]
             /\ loc' = [loc EXCEPT ![p].key = key, ![p].new_used = new_used,
                                   ![p].current_used = current_used]
  /\ UNCHANGED <<now, ticks, cache, daily_limit, sent, fetchvars, viewvars>>

\* lines 65-73: compute the expiry and store the new counter
ConsumeSetDaily(p) ==
  /\ pc[p] = "cq_set"
  /\ IF ReplaceDayRaises(now)
     THEN /\ pc' = [pc EXCEPT ![p] = AfterConsume(p, "raised")]
          /\ loc' = [loc EXCEPT ![p] = ConsumeReturn(loc[p], "raised")]
          /\ cache' = cache
     ELSE /\ pc' = [pc EXCEPT ![p] = "cq_hour_get"]
          /\ cache' = CacheSet(cache, now, loc[p].key, loc[p].new_used, DailyTimeout(now))
          /\ loc' = [loc EXCEPT ![p].wrote = TRUE,
                                ![p].grew = loc[p].new_used
                                            - CacheGet(cache, now, loc[p].key, 0)]
  /\ UNCHANGED <<now, ticks, daily_limit, sent, fetchvars, viewvars>>

\* lines 76-77: read the hourly counter
ConsumeHourGet(p) ==
  /\ pc[p] = "cq_hour_get"
  /\ pc' = [pc EXCEPT ![p] = "cq_hour_set"]
  /\ loc' = [loc EXCEPT ![p].hourly_used = CacheGet(cache, now, CurrentHourKey(now), 0)]
  /\ UNCHANGED <<now, ticks, cache, daily_limit, sent, fetchvars, viewvars>>

\* lines 78-84: store the hourly counter and return True
ConsumeHourSet(p) ==
  /\ pc[p] = "cq_hour_set"
  /\ cache' = CacheSet(cache, now, CurrentHourKey(now),
                       loc[p].hourly_used + loc[p].units, HourlyTimeout)
  /\ pc' = [pc EXCEPT ![p] = AfterConsume(p, "true")]
  /\ loc' = [loc EXCEPT ![p] = ConsumeReturn(loc[p], "true")]
  /\ UNCHANGED <<now, ticks, daily_limit, sent, fetchvars, viewvars>>

ConsumeStep(p) ==
  \/ ConsumeRead(p)
  \/ ConsumeSetDaily(p)
  \/ ConsumeHourGet(p)
  \/ ConsumeHourSet(p)

NextQuota ==
  \/ \E p \in Callers, u \in 1..MaxCost : CallConsume(p, u)
  \/ \E p \in Callers : ConsumeStep(p)
  \/ TickHour

SpecQuota == InitQuota /\ [][NextQuota]_vars

(***************************************************************************)
(* consume_quota called concurrently with can_make_request and             *)
(* reset_quota, each of which is one cache operation.                      *)
(***************************************************************************)
CallCanMakeRequest(p, u) ==
  /\ pc[p] = "idle"
  /\ pc' = [pc EXCEPT ![p] = "done"]
  /\ loc' = [loc EXCEPT ![p] =
               [NoCall EXCEPT !.op = "can_make_request", !.units = u,
                              !.calls = 1,
                              !.current_used = GetDailyQuotaUsed(cache, now),
                              !.result =
                                IF QuotaCanMakeRequest(cache, now, daily_limit, u)
                                THEN "true" ELSE "false"]]
  /\ UNCHANGED <<now, ticks, cache, daily_limit, sent, fetchvars, viewvars>>

\* reset_quota: cache.delete(key)
ResetQuota(p) ==
  /\ pc[p] = "idle"
  /\ cache' = [x \in DOMAIN cache \ {TodayKey(now)} |-> cache[x]]
  /\ pc' = [pc EXCEPT ![p] = "done"]
  /\ loc' = [loc EXCEPT ![p] = [NoCall EXCEPT !.op = "reset_quota",
                                              !.calls = 1, !.result = "ok"]]
  /\ UNCHANGED <<now, ticks, daily_limit, sent, fetchvars, viewvars>>

NextStatus ==
  \/ \E p \in Callers, u \in 1..MaxCost : CallConsume(p, u)
  \/ \E p \in Callers : ConsumeStep(p)
  \/ \E p \in Callers, u \in 1..MaxCost : CallCanMakeRequest(p, u)
  \/ \E p \in Callers : ResetQuota(p)
  \/ TickHour

SpecStatus == InitQuota /\ [][NextStatus]_vars

(***************************************************************************)
(* RateLimiter                                                             *)
(***************************************************************************)
\* f'ratelimit:second:{now.timestamp():.0f}': the clock counts whole seconds,
\* which that format leaves as they are.
SecondKey(t) == <<"ratelimit:second", t>>
MinuteKey(t) == <<"ratelimit:minute", t \div SecondsPerMinute>>

RateCanMakeRequest(c, t) ==
  IF CacheGet(c, t, SecondKey(t), 0) >= MaxPerSecond THEN FALSE
  ELSE IF CacheGet(c, t, MinuteKey(t), 0) >= MaxPerMinute THEN FALSE
  ELSE TRUE

(***************************************************************************)
(* CachedYouTubeService._make_api_call(endpoint, params, func, quota_cost) *)
(***************************************************************************)
ApiStartTimes == {At(MonthDays, 7, 59, 57)}

\* APICache._generate_cache_key(endpoint, params), for the one endpoint and
\* params the callers ask for
ApiCacheKey == <<"youtube_api", 0>>

\* The cache is shared and outlives the process: it starts empty or with a
\* response stored by APICache.set for the default time to live.
InitApi ==
  /\ now \in ApiStartTimes
  /\ ticks = 0
  /\ cache \in {EmptyCache, CacheSet(EmptyCache, now, ApiCacheKey, 1, DefaultTtl)}
  /\ daily_limit \in 1..MaxLimit
  /\ pc = [p \in Callers |-> "idle"]
  /\ loc = [p \in Callers |-> NoCall]
  /\ sent = <<>>
  /\ ViewIdle
  /\ FetchIdle

\* lines 55-62: `if False and not bypass_cache` never reads the cache
CallApi(p, u, bypass_cache) ==
  /\ pc[p] = "idle"
  /\ pc' = [pc EXCEPT ![p] = "mc_quota"]
  /\ loc' = [loc EXCEPT ![p] =
               [NoCall EXCEPT !.op = "api", !.units = u, !.calls = 1,
                              !.bypass_cache = bypass_cache,
                              !.hit = CacheGet(cache, now, ApiCacheKey, 0) # 0]]
  /\ UNCHANGED <<now, ticks, cache, daily_limit, sent, fetchvars, viewvars>>

\* lines 65-70: the quota check before the request; ValueError when it fails
ApiQuotaCheck(p) ==
  /\ pc[p] = "mc_quota"
  /\ IF QuotaCanMakeRequest(cache, now, daily_limit, loc[p].units)
     THEN /\ pc' = [pc EXCEPT ![p] = "rl_check"]
          /\ loc' = loc
     ELSE /\ pc' = [pc EXCEPT ![p] = "done"]
          /\ loc' = [loc EXCEPT ![p] = Finished(loc[p], "quota_exceeded")]
  /\ UNCHANGED <<now, ticks, cache, daily_limit, sent, fetchvars, viewvars>>

\* wait_if_needed, line 59: the first check; time.sleep(1) when it fails
WaitCheck(p) ==
  /\ pc[p] = "rl_check"
  /\ IF RateCanMakeRequest(cache, now)
     THEN /\ pc' = [pc EXCEPT ![p] = "dispatch"]
          /\ loc' = loc
     ELSE /\ pc' = [pc EXCEPT ![p] = "rl_sleep1"]
          /\ loc' = [loc EXCEPT ![p].ok1 = FALSE, ![p].wake = now + SleepSeconds]
  /\ UNCHANGED <<now, ticks, cache, daily_limit, sent, fetchvars, viewvars>>

\* wait_if_needed, lines 61-64: after the sleep, the retry; time.sleep(1) again
\* when it fails too
WaitRetry(p) ==
  /\ pc[p] = "rl_sleep1"
  /\ now >= loc[p].wake
  /\ IF RateCanMakeRequest(cache, now)
     THEN /\ pc' = [pc EXCEPT ![p] = "dispatch"]
          /\ loc' = [loc EXCEPT ![p].wake = 0]
     ELSE /\ pc' = [pc EXCEPT ![p] = "rl_sleep2"]
          /\ loc' = [loc EXCEPT ![p].ok2 = FALSE, ![p].wake = now + SleepSeconds]
  /\ UNCHANGED <<now, ticks, cache, daily_limit, sent, fetchvars, viewvars>>

\* wait_if_needed returns after the second sleep
WaitReturn(p) ==
  /\ pc[p] = "rl_sleep2"
  /\ now >= loc[p].wake
  /\ pc' = [pc EXCEPT ![p] = "dispatch"]
  /\ loc' = [loc EXCEPT ![p].wake = 0]
  /\ UNCHANGED <<now, ticks, cache, daily_limit, sent, fetchvars, viewvars>>

\* line 78, result = func(): the upstream call is made; it returns or raises,
\* and an exception leaves through the except clause of lines 94-100
Dispatch(p, raises) ==
  /\ pc[p] = "dispatch"
  /\ sent' = Append(sent, now)
  /\ pc' = [pc EXCEPT ![p] = IF raises THEN "done" ELSE "cq_read"]
  /\ loc' = [loc EXCEPT ![p].dispatched = TRUE,
                        ![p].saturated = ~RateCanMakeRequest(cache, now),
                        ![p].result = IF raises THEN "error" ELSE "none"]
  /\ UNCHANGED <<now, ticks, cache, daily_limit, fetchvars, viewvars>>

\* record_request, line 51: read the per-second counter
RecordSecondGet(p) ==
  /\ pc[p] = "rec_second_get"
  /\ pc' = [pc EXCEPT ![p] = "rec_second_set"]
  /\ loc' = [loc EXCEPT ![p].key = SecondKey(now),
                        ![p].got = CacheGet(cache, now, SecondKey(now), 0)]
  /\ UNCHANGED <<now, ticks, cache, daily_limit, sent, fetchvars, viewvars>>

\* record_request, line 51: store the per-second counter
RecordSecondSet(p) ==
  /\ pc[p] = "rec_second_set"
  /\ cache' = CacheSet(cache, now, loc[p].key, loc[p].got + 1, SecondTimeout)
  /\ pc' = [pc EXCEPT ![p] = "rec_minute_get"]
  /\ loc' = [loc EXCEPT ![p].inc_second =
                          loc[p].got + 1 - CacheGet(cache, now, loc[p].key, 0)]
  /\ UNCHANGED <<now, ticks, daily_limit, sent, fetchvars, viewvars>>

\* record_request, line 55: read the per-minute counter
RecordMinuteGet(p) ==
  /\ pc[p] = "rec_minute_get"
  /\ pc' = [pc EXCEPT ![p] = "rec_minute_set"]
  /\ loc' = [loc EXCEPT ![p].key = MinuteKey(now),
                        ![p].got = CacheGet(cache, now, MinuteKey(now), 0)]
  /\ UNCHANGED <<now, ticks, cache, daily_limit, sent, fetchvars, viewvars>>

\* record_request, line 55: store the per-minute counter; line 92: return result
RecordMinuteSet(p) ==
  /\ pc[p] = "rec_minute_set"
  /\ cache' = CacheSet(cache, now, loc[p].key, loc[p].got + 1, MinuteTimeout)
  /\ pc' = [pc EXCEPT ![p] = "done"]
  /\ loc' = [loc EXCEPT ![p] = Finished([loc[p] EXCEPT !.inc_minute =
                          loc[p].got + 1 - CacheGet(cache, now, loc[p].key, 0)], "ok")]
  /\ UNCHANGED <<now, ticks, daily_limit, sent, fetchvars, viewvars>>

ApiStep(p) ==
  \/ ApiQuotaCheck(p)
  \/ WaitCheck(p)
  \/ WaitRetry(p)
  \/ WaitReturn(p)
  \/ \E raises \in BOOLEAN : Dispatch(p, raises)
  \/ ConsumeStep(p)
  \/ RecordSecondGet(p)
  \/ RecordSecondSet(p)
  \/ RecordMinuteGet(p)
  \/ RecordMinuteSet(p)

NextApi ==
  \/ \E p \in Callers, bypass_cache \in BOOLEAN :
       CallApi(p, ApiCost, bypass_cache)
  \/ \E p \in Callers : ApiStep(p)
  \/ TickSecond

SpecApi == InitApi /\ [][NextApi]_vars

(***************************************************************************)
(* Python lists and dictionaries of the fetch.                             *)
(***************************************************************************)
Range(s) == {s[i] : i \in 1..Len(s)}

\* the lists of distinct video ids an upstream listing can return
IdSeqs ==
  {s \in UNION {[1..n -> Ids] : n \in 0..Cardinality(Ids)} :
     \A i, j \in 1..Len(s) : i # j => s[i] # s[j]}

\* seq[:]: the slice without its bound
TakeAll(s, n) == s

\* seq[:n]
Take(s, n) == SubSeq(s, 1, Min(Len(s), Max(n, 0)))

\* [x for x in seq if keep[x]]
RECURSIVE Filter(_, _)
Filter(s, keep) ==
  IF s = <<>> THEN <<>>
  ELSE IF Head(s) \in keep THEN <<Head(s)>> \o Filter(Tail(s), keep)
  ELSE Filter(Tail(s), keep)

\* tuple comparison of two sort keys <<k1, k2>>
KeyLess(a, b) == a[1] < b[1] \/ (a[1] = b[1] /\ a[2] < b[2])

\* sorted(seq, key=..., reverse=True): descending and stable
RECURSIVE InsertDesc(_, _, _)
InsertDesc(s, x, key) ==
  IF s = <<>> THEN <<x>>
  ELSE IF KeyLess(key[Head(s)], key[x]) THEN <<x>> \o s
  ELSE <<Head(s)>> \o InsertDesc(Tail(s), x, key)

RECURSIVE SortedDesc(_, _)
SortedDesc(s, key) ==
  IF s = <<>> THEN <<>>
  ELSE InsertDesc(SortedDesc(SubSeq(s, 1, Len(s) - 1), key), s[Len(s)], key)

\* d[id] = rec on a dictionary d = [store, order]
DictSet(d, id, rec) ==
  [store |-> [x \in (DOMAIN d.store) \cup {id} |-> IF x = id THEN rec ELSE d.store[x]],
   order |-> IF id \in DOMAIN d.store THEN d.order ELSE Append(d.order, id)]

(***************************************************************************)
(* YouTubeService.get_video_statistics: the record built for one item      *)
(***************************************************************************)
IsShortStrict(total_seconds) == total_seconds < ShortSeconds

\* total_seconds <= 60
IsShortVideo(total_seconds) == total_seconds <= ShortSeconds

VideoData(id, item) ==
  [view_count |-> item.views,
   is_short |-> IsShortVideo(duration[id]),
   is_live |-> (item.live.lbc = "live") \/ item.live.lsd,
   live_viewers |-> item.live.cv,
   live_broadcast_content |-> item.live.lbc]

\* batch_count * QUOTA_COSTS['videos.list'], batch_count = (len(ids) + 49) // 50
StatisticsCost(n) == ((n + (BatchSize - 1)) \div BatchSize) * CostVideosList

\* a paid call made on self.youtube directly: nothing admits or charges it
Unadmitted(p, cost, searches) ==
  [p EXCEPT !.units = @ + cost, !.unadmitted = @ + 1, !.search = @ + searches]

\* a paid call made through _make_api_call after its quota check passed
Admitted(p, cost) == [p EXCEPT !.units = @ + cost]

(***************************************************************************)
(* fetch_channel_videos: the request, then the blocks of the two methods.  *)
(***************************************************************************)
FetchStartTime == At(1, 9, 0, 0)

InitFetch ==
  /\ now = FetchStartTime
  /\ ticks = 0
  /\ cache = EmptyCache
  /\ daily_limit = DefaultDailyLimit
  /\ pc = [p \in Callers |-> "idle"]
  /\ loc = [p \in Callers |-> NoCall]
  /\ sent = <<>>
  /\ ViewIdle
  /\ fpc = "w_resolve"
  /\ req \in [max_videos : 1..MaxWanted, max_shorts : 1..MaxWanted,
              use_search_api : {FALSE}, search_failed : {FALSE},
              real_time_live : {FALSE}, uploads : {FALSE}]
  /\ duration \in [Ids -> Durations]
  /\ store = EmptyStore
  /\ order = <<>>
  /\ lists = NoLists
  /\ result = NoResult
  /\ paid = NoPaid

\* the fetch ends with an exception leaving fetch_channel_videos
Raise(why) ==
  /\ fpc' = "done"
  /\ result' = [NoResult EXCEPT !.at = "raised", !.error = why]

\* CachedYouTubeService.fetch_channel_videos, lines 172-174
WrapperResolve(resolved) ==
  /\ fpc = "w_resolve"
  /\ IF resolved
     THEN fpc' = "resolve" /\ result' = result
     ELSE Raise("resolution")
  /\ UNCHANGED <<callvars, viewvars, req, duration, store, order, lists, paid>>

\* YouTubeService.fetch_channel_videos, lines 599-626
InnerResolve(resolved) ==
  /\ fpc = "resolve"
  /\ IF resolved
     THEN fpc' = "channel_info" /\ result' = result
     ELSE Raise("resolution")
  /\ UNCHANGED <<callvars, viewvars, req, duration, store, order, lists, paid>>

\* lines 628-642: channels.list; get_channel_info returns the channel's
\* dictionary, with or without an uploads playlist id, or raises ValueError
GetChannelInfo(outcome) ==
  /\ fpc = "channel_info"
  /\ paid' = Unadmitted(paid, CostChannelsList, 0)
  /\ IF outcome = "raises"
     THEN Raise("channel_info") /\ req' = req
     ELSE /\ fpc' = "live_probe"
          /\ req' = [req EXCEPT !.uploads = (outcome = "uploads")]
          /\ result' = result
  /\ UNCHANGED <<callvars, viewvars, duration, store, order, lists>>

\* lines 696-699: the live broadcasts found are put in the dictionary,
\* marked as live
RECURSIVE SeedLive(_, _, _)
SeedLive(d, ids, items) ==
  IF ids = <<>> THEN d
  ELSE SeedLive(DictSet(d, Head(ids),
                        [VideoData(Head(ids), items[Head(ids)]) EXCEPT !.is_live = TRUE]),
                Tail(ids), items)

\* lines 644-700: search.list(eventType='live'), then videos.list for the
\* broadcasts found; any exception leaves no live broadcasts
LiveProbe(search_raises, ids, stats_raises, items) ==
  /\ fpc = "live_probe"
  /\ LET found == IF search_raises THEN <<>> ELSE ids
         details == IF stats_raises THEN <<>> ELSE found
         d == SeedLive([store |-> store, order |-> order], details, items)
         p1 == Unadmitted(paid, CostSearchList, 1)
     IN /\ store' = d.store
        /\ order' = d.order
        /\ paid' = IF found = <<>> THEN p1
                   ELSE Unadmitted(p1, StatisticsCost(Len(found)), 0)
  /\ fpc' = "search"
  /\ UNCHANGED <<callvars, viewvars, req, duration, lists, result>>

\* lines 713-714: every video of the search result is put in the dictionary
RECURSIVE MergeSearch(_, _, _)
MergeSearch(d, ids, items) ==
  IF ids = <<>> THEN d
  ELSE MergeSearch(DictSet(d, Head(ids), VideoData(Head(ids), items[Head(ids)])),
                   Tail(ids), items)

\* lines 702-718: with USE_SEARCH_API, fetch_channel_videos_by_popularity:
\* search.list(order='viewCount'), then videos.list; any exception gives []
\* (req.search_failed observes that exception until lines 720-730 have run)
SearchMerge(use_search_api, search_raises, ids, stats_raises, items) ==
  /\ fpc = "search"
  /\ req' = [req EXCEPT !.use_search_api = use_search_api,
                         !.search_failed = use_search_api /\ (search_raises \/ stats_raises)]
  /\ IF use_search_api
     THEN LET found == IF search_raises THEN <<>> ELSE ids
              search_videos == IF stats_raises THEN <<>> ELSE found
              d == MergeSearch([store |-> store, order |-> order], search_videos, items)
              p1 == Unadmitted(paid, CostSearchList, 1)
          IN /\ store' = d.store
             /\ order' = d.order
             /\ paid' = IF found = <<>> THEN p1
                        ELSE Unadmitted(p1, StatisticsCost(Len(found)), 0)
     ELSE UNCHANGED <<store, order, paid>>
  /\ fpc' = "categorize"
  /\ UNCHANGED <<callvars, viewvars, duration, lists, result>>

ShortIds(st) == {id \in DOMAIN st : st[id].is_short}
RegularIds(st) == {id \in DOMAIN st : ~st[id].is_short}

\* lines 720-730: the two lists in dictionary order, and whether the playlist
\* is needed
Categorize ==
  /\ fpc = "categorize"
  /\ LET regular_videos == Filter(order, RegularIds(store))
         shorts == Filter(order, ShortIds(store))
         search_api_failed == Len(order) = 0
         need_more == Len(regular_videos) < req.max_videos
                        \/ Len(shorts) < req.max_shorts
     IN /\ lists' = [lists EXCEPT !.regular_videos = regular_videos, !.shorts = shorts]
        /\ fpc' = IF search_api_failed \/ need_more THEN "playlist" ELSE "live_select"
  /\ req' = [req EXCEPT !.search_failed = FALSE]
  /\ UNCHANGED <<callvars, viewvars, duration, store, order, result, paid>>

\* lines 754-756: a playlist video is added unless its id is already there
RECURSIVE MergePlaylist(_, _, _)
MergePlaylist(d, ids, items) ==
  IF ids = <<>> THEN d
  ELSE MergePlaylist(IF Head(ids) \in DOMAIN d.store THEN d
                     ELSE DictSet(d, Head(ids), VideoData(Head(ids), items[Head(ids)])),
                     Tail(ids), items)

\* key=lambda x: int(x.get('view_count', 0))
ViewKey(st) == [id \in DOMAIN st |-> <<st[id].view_count, 0>>]

\* lines 730-772: playlistItems.list for the uploads playlist, then videos.list;
\* the merged videos are sorted by views; an exception is printed and dropped
PlaylistFallback(list_raises, ids, stats_raises, items) ==
  /\ fpc = "playlist"
  /\ IF ~req.uploads
     THEN UNCHANGED <<store, order, lists, paid>>
     ELSE LET video_ids == IF list_raises THEN <<>> ELSE ids
              p1 == Unadmitted(paid, CostPlaylistItems, 0)
              d == MergePlaylist([store |-> store, order |-> order], video_ids, items)
          IN IF video_ids = <<>>
             THEN paid' = p1 /\ UNCHANGED <<store, order, lists>>
             ELSE /\ paid' = Unadmitted(p1, StatisticsCost(Len(video_ids)), 0)
                  /\ IF stats_raises
                     THEN UNCHANGED <<store, order, lists>>
                     ELSE /\ store' = d.store
                          /\ order' = d.order
                          /\ lists' = [lists EXCEPT
                               !.regular_videos =
                                 SortedDesc(Filter(d.order, RegularIds(d.store)),
                                            ViewKey(d.store)),
                               !.shorts =
                                 SortedDesc(Filter(d.order, ShortIds(d.store)),
                                            ViewKey(d.store))]
  /\ fpc' = "live_select"
  /\ UNCHANGED <<callvars, viewvars, req, duration, result>>

\* lines 850-870: the videos taken as live
LiveCandidates(st) ==
  {id \in DOMAIN st :
     \/ st[id].is_live
     \/ (st[id].live_viewers # None /\ st[id].live_viewers # 0)
     \/ st[id].live_broadcast_content = "live"}

\* a sort key with the two fields exchanged: (views_int, viewers_int)
ViewsFirstKey(st) ==
  [id \in DOMAIN st |->
     <<st[id].view_count,
       IF st[id].live_viewers = None THEN 0 ELSE st[id].live_viewers>>]

\* get_sort_key: (viewers_int, views_int), None counted as 0
LiveKey(st) ==
  [id \in DOMAIN st |->
     <<IF st[id].live_viewers = None THEN 0 ELSE st[id].live_viewers,
       st[id].view_count>>]

\* the live videos without lines 919-921: all of them are kept
KeepAllLive(s) == s

\* lines 919-921: only the first live video is kept
KeepTopLive(s) == IF Len(s) > 1 THEN <<s[1]>> ELSE s

\* lines 846-925: the live videos, sorted by viewers then views, the top one kept
LiveSelect ==
  /\ fpc = "live_select"
  /\ LET live == LiveCandidates(store)
         st == [id \in DOMAIN store |->
                  IF id \in live THEN [store[id] EXCEPT !.is_live = TRUE] ELSE store[id]]
     IN /\ store' = st
        /\ lists' = [lists EXCEPT !.live_videos =
                       KeepTopLive(SortedDesc(Filter(order, live), LiveKey(st)))]
  /\ fpc' = "build"
  /\ UNCHANGED <<callvars, viewvars, req, duration, order, result, paid>>

\* lines 927-1016: the dictionary returned; without videos the one that only
\* carries the error text
BuildResult ==
  /\ fpc = "build"
  /\ result' =
       IF Len(order) = 0
       THEN [NoResult EXCEPT !.at = "inner", !.error = "no_videos"]
       ELSE [NoResult EXCEPT !.at = "inner",
                             !.videos = Take(lists.regular_videos, req.max_videos),
                             !.shorts = Take(lists.shorts, req.max_shorts),
                             !.live_videos = lists.live_videos]
  /\ fpc' = "w_live"
  /\ UNCHANGED <<callvars, viewvars, req, duration, store, order, lists, paid>>

\* CachedYouTubeService.fetch_channel_videos, lines 239-242
WrapperKeepTop(s) == IF Len(s) > 1 THEN <<s[1]>> ELSE s

\* lines 201-245: the live videos of the result sorted again, the top one kept
WrapperLive ==
  /\ fpc = "w_live"
  /\ result' = [result EXCEPT
                  !.at = "wrapper",
                  !.live_videos = IF Len(result.live_videos) > 0
                                  THEN WrapperKeepTop(SortedDesc(result.live_videos,
                                                                 LiveKey(store)))
                                  ELSE result.live_videos]
  /\ fpc' = "real_time"
  /\ UNCHANGED <<callvars, viewvars, req, duration, store, order, lists, paid>>

(***************************************************************************)
(* _make_api_call run by one thread with no other thread in between.       *)
(***************************************************************************)
\* the instant wait_if_needed returns
WaitEnd(c, t) ==
  IF RateCanMakeRequest(c, t) THEN t
  ELSE IF RateCanMakeRequest(c, t + SleepSeconds) THEN t + SleepSeconds
  ELSE t + SleepSeconds + SleepSeconds

\* consume_quota, when it returns True
ConsumeQuotaCache(c, t, u) ==
  CacheSet(CacheSet(c, t, TodayKey(t), CacheGet(c, t, TodayKey(t), 0) + u, DailyTimeout(t)),
           t, CurrentHourKey(t), CacheGet(c, t, CurrentHourKey(t), 0) + u, HourlyTimeout)

\* record_request
RecordRequestCache(c, t) ==
  CacheSet(CacheSet(c, t, SecondKey(t), CacheGet(c, t, SecondKey(t), 0) + 1, SecondTimeout),
           t, MinuteKey(t), CacheGet(c, t, MinuteKey(t), 0) + 1, MinuteTimeout)

\* lines 366-369
RefreshKeepTop(s) == IF Len(s) > 1 THEN <<s[1]>> ELSE s

\* lines 319-371: the live videos take the fresh statistics; one that is no
\* longer live leaves the list; the rest is sorted and the top one kept
RefreshLive(st, live_videos, fresh_ids, items) ==
  LET fresh(id) == VideoData(id, items[id])
      updated == Range(live_videos) \cap fresh_ids
      st2 == [id \in DOMAIN st |->
                IF id \in updated
                THEN [st[id] EXCEPT !.view_count = fresh(id).view_count,
                                    !.live_viewers = fresh(id).live_viewers,
                                    !.is_live = fresh(id).is_live]
                ELSE st[id]]
      kept == Filter(live_videos, {id \in Range(live_videos) :
                                     id \notin updated \/ fresh(id).is_live})
  IN [store |-> st2,
      live_videos |-> IF Len(kept) > 0
                      THEN RefreshKeepTop(SortedDesc(kept, LiveKey(st2)))
                      ELSE kept]

\* the videos of a live slot that upstream, asked at this instant, reports as
\* not live
EndedLive(live_videos, items) ==
  {id \in Range(live_videos) : ~VideoData(id, items[id]).is_live}

\* lines 262-390: with real_time_trending or real_time_live, one videos.list
\* call through _make_api_call for the videos and shorts of the result; then
\* the quota status is attached and the result returned
RealTime(real_time_trending, real_time_live, raises, items) ==
  /\ fpc = "real_time"
  /\ req' = [req EXCEPT !.real_time_live = real_time_live]
  /\ LET all_video_ids == result.videos \o result.shorts
         cost == StatisticsCost(Len(all_video_ids))
         t == WaitEnd(cache, now)
         c == Unexpired(cache, t)
         r == RefreshLive(store, result.live_videos, Range(all_video_ids), items)
     IN IF ~(real_time_trending \/ real_time_live) \/ all_video_ids = <<>>
        THEN /\ fpc' = "done"
             /\ result' = [result EXCEPT
                             !.at = "returned",
                             !.ended = IF real_time_live
                                       THEN EndedLive(result.live_videos, items) ELSE {}]
             /\ UNCHANGED <<now, cache, sent, store, paid>>
        ELSE IF ~QuotaCanMakeRequest(cache, now, daily_limit, cost)
        THEN /\ Raise("quota")
             /\ UNCHANGED <<now, cache, sent, store, paid>>
        ELSE /\ now' = t
             /\ sent' = Append(sent, t)
             /\ paid' = Admitted(paid, cost)
             /\ IF raises \/ ReplaceDayRaises(t)
                THEN /\ Raise("upstream")
                     /\ cache' = c
                     /\ store' = store
                ELSE /\ cache' = RecordRequestCache(
                                   IF CacheGet(c, t, TodayKey(t), 0) + cost > daily_limit
                                   THEN c ELSE ConsumeQuotaCache(c, t, cost), t)
                     /\ fpc' = "done"
                     /\ IF real_time_live /\ Len(result.live_videos) > 0
                        THEN /\ store' = r.store
                             /\ result' = [result EXCEPT
                                             !.at = "returned",
                                             !.live_videos = r.live_videos,
                                             !.ended = EndedLive(r.live_videos, items)]
                        ELSE /\ store' = store
                             /\ result' = [result EXCEPT !.at = "returned"]
  /\ UNCHANGED <<ticks, daily_limit, pc, loc, duration, order, lists,
               viewvars>>

\* what one upstream listing followed by videos.list can answer
Answers ==
  {a \in [search_raises : BOOLEAN, stats_raises : BOOLEAN, ids : IdSeqs] :
     /\ a.search_raises => (a.ids = <<>> /\ ~a.stats_raises)
     /\ a.stats_raises => a.ids # <<>>}

\* no listing is made
NoAnswer == [search_raises |-> FALSE, stats_raises |-> FALSE, ids |-> <<>>]

\* the statistics videos.list answers for the ids asked
AnswerItems(a) ==
  IF a.stats_raises THEN {[id \in Range(a.ids) |-> CHOOSE item \in StatItems : TRUE]}
  ELSE [Range(a.ids) -> StatItems]

\* search.list(order='viewCount') lists the videos by views, descending
ByPopularity(ids, items) ==
  \A i \in 1..(Len(ids) - 1) : items[ids[i]].views >= items[ids[i + 1]].views

NextFetch ==
  \/ \E resolved \in BOOLEAN : WrapperResolve(resolved)
  \/ \E resolved \in BOOLEAN : InnerResolve(resolved)
  \/ \E outcome \in {"uploads", "no_uploads", "raises"} : GetChannelInfo(outcome)
  \/ \E a \in Answers : \E items \in AnswerItems(a) :
       LiveProbe(a.search_raises, a.ids, a.stats_raises, items)
  \/ \E use_search_api \in BOOLEAN :
       \E a \in IF use_search_api THEN Answers ELSE {NoAnswer} :
         \E items \in {it \in AnswerItems(a) : ByPopularity(a.ids, it)} :
           SearchMerge(use_search_api, a.search_raises, a.ids, a.stats_raises, items)
  \/ Categorize
  \/ \E a \in IF req.uploads THEN Answers ELSE {NoAnswer} :
       \E items \in AnswerItems(a) :
         PlaylistFallback(a.search_raises, a.ids, a.stats_raises, items)
  \/ LiveSelect
  \/ BuildResult
  \/ WrapperLive
  \/ \E real_time_trending, real_time_live, raises \in BOOLEAN :
       \E items \in [Range(result.live_videos) -> StatItems] :
         RealTime(real_time_trending, real_time_live, raises, items)

SpecFetch == InitFetch /\ [][NextFetch]_vars

(***************************************************************************)
(* The trending fields.  A score is the quotient num / den of two          *)
(* integers; hours_since_publish is kept in hundredths of an hour, the     *)
(* two decimals round(..., 2) leaves.  Each video's record here carries    *)
(* its publish time and the instant its trending fields were computed.     *)
(***************************************************************************)
ScoreZero == [num |-> 0, den |-> 1]
ScoreLess(a, b) == a.num * b.den < b.num * a.den
ScoreEqual(a, b) == a.num * b.den = b.num * a.den

\* round(a / b) for a >= 0, b > 0, a tie going to the even neighbour
RoundDiv(a, b) ==
  LET fl == a \div b
      r == a % b
  IN IF 2 * r < b THEN fl
     ELSE IF 2 * r > b THEN fl + 1
     ELSE IF fl % 2 = 0 THEN fl ELSE fl + 1

\* round(score, 2)
Round2(q) == [num |-> RoundDiv(q.num * 100, q.den), den |-> 100]

\* round(hours, 2) of s seconds, in hundredths of an hour
HoursRounded(s) ==
  IF s >= 0 THEN RoundDiv(s * 100, SecondsPerHour)
  ELSE 0 - RoundDiv((0 - s) * 100, SecondsPerHour)

\* the window without its upper end: hours_since_publish < 3
InTrendWindowExclusive(s) == s < TrendHours * SecondsPerHour /\ s >= 0

\* hours_since_publish <= 3 and hours_since_publish >= 0, s in seconds
InTrendWindow(s) == s <= TrendHours * SecondsPerHour /\ s >= 0

\* lines 437-445 and 796-808: the score of a video published s seconds ago;
\* hours_since_publish < 0.1 is s * 10 < 3600
TrendingScore(view_count, s) ==
  IF InTrendWindow(s)
  THEN IF s * 10 < SecondsPerHour
       THEN [num |-> view_count * BoostFactor, den |-> 1]
       ELSE [num |-> view_count * SecondsPerHour, den |-> s]
  ELSE ScoreZero

\* get_video_statistics at instant t: the record of a video
TrendingData(item, t) ==
  [view_count |-> item.views,
   is_short |-> item.is_short,
   published |-> item.published,
   hours_since_publish |-> HoursRounded(t - item.published),
   trending_score |-> Round2(TrendingScore(item.views, t - item.published)),
   is_trending |-> InTrendWindow(t - item.published),
   computed_at |-> t,
   rounded |-> TRUE]

\* lines 783-810 at instant t: the trending fields of a stored video again
Recomputed(v, t) ==
  [v EXCEPT !.hours_since_publish = HoursRounded(t - v.published),
            !.is_trending = InTrendWindow(t - v.published),
            !.trending_score = TrendingScore(v.view_count, t - v.published),
            !.computed_at = t,
            !.rounded = FALSE]

\* lines 814-824: a video flagged trending whose stored hours are outside
\* the window loses the flag
Validated(v) ==
  IF v.is_trending /\ ~(v.hours_since_publish <= TrendHours * 100
                        /\ v.hours_since_publish >= 0)
  THEN [v EXCEPT !.is_trending = FALSE] ELSE v

\* sorted(..., key=lambda x: x.get('trending_score', 0), reverse=True)
RECURSIVE InsertByScore(_, _, _)
InsertByScore(s, x, st) ==
  IF s = <<>> THEN <<x>>
  ELSE IF ScoreLess(st[Head(s)].trending_score, st[x].trending_score) THEN <<x>> \o s
  ELSE <<Head(s)>> \o InsertByScore(Tail(s), x, st)

RECURSIVE SortedByScore(_, _)
SortedByScore(s, st) ==
  IF s = <<>> THEN <<>>
  ELSE InsertByScore(SortedByScore(SubSeq(s, 1, Len(s) - 1), st), s[Len(s)], st)

\* what upstream holds of a video: when it was published, with the clock
\* skew that puts a publish time after now
PublishAges == {0 - SecondsPerMinute, 3 * SecondsPerMinute,
                2 * SecondsPerHour, 3 * SecondsPerHour}
TrendStartTime == At(1, 9, 0, 0)
TrendItems ==
  [views : ViewCounts, is_short : BOOLEAN,
   published : {TrendStartTime - a : a \in PublishAges}]

InitTrend ==
  /\ now = TrendStartTime
  /\ ticks = 0
  /\ cache = EmptyCache
  /\ daily_limit = DefaultDailyLimit
  /\ pc = [p \in Callers |-> "idle"]
  /\ loc = [p \in Callers |-> NoCall]
  /\ sent = <<>>
  /\ ViewIdle
  /\ fpc = "t_statistics"
  /\ req = NoRequest
  /\ duration = [i \in Ids |-> 0]
  /\ store = EmptyStore
  /\ order = <<>>
  /\ lists = NoLists
  /\ result = NoResult
  /\ paid = NoPaid

\* get_video_statistics, lines 428-476: the videos of the channel arrive
\* with their trending fields
RECURSIVE StoreStatistics(_, _, _, _)
StoreStatistics(d, ids, items, t) ==
  IF ids = <<>> THEN d
  ELSE StoreStatistics(DictSet(d, Head(ids), TrendingData(items[Head(ids)], t)),
                       Tail(ids), items, t)

TrendStatistics(ids, items) ==
  /\ fpc = "t_statistics"
  /\ ids # <<>>
  /\ LET d == StoreStatistics([store |-> store, order |-> order], ids, items, now)
     IN store' = d.store /\ order' = d.order
  /\ paid' = Unadmitted(paid, StatisticsCost(Len(ids)), 0)
  /\ fpc' = "t_select"
  /\ UNCHANGED <<callvars, viewvars, req, duration, lists, result>>

\* fetch_channel_videos, lines 774-844 and 970-1016: the trending fields are
\* computed again, the trending videos and shorts sorted by score, the top
\* three of each kept and returned
TrendSelect ==
  /\ fpc = "t_select"
  /\ LET st == [id \in DOMAIN store |-> Validated(Recomputed(store[id], now))]
         trending_all == {id \in DOMAIN st : st[id].is_trending}
         trending_videos ==
           Take(SortedByScore(Filter(order, trending_all \cap RegularIds(st)), st),
                TopTrending)
         trending_shorts ==
           Take(SortedByScore(Filter(order, trending_all \cap ShortIds(st)), st),
                TopTrending)
     IN /\ store' = st
        /\ lists' = [lists EXCEPT !.trending_videos = trending_videos,
                                  !.trending_shorts = trending_shorts]
        /\ result' = [result EXCEPT !.at = "inner",
                                    !.trending_videos = trending_videos,
                                    !.trending_shorts = trending_shorts]
  /\ fpc' = "t_refresh"
  /\ UNCHANGED <<callvars, viewvars, req, duration, order, paid>>

\* cached_youtube_service.py lines 287-317: a trending video of the result
\* takes view_count, trending_score and hours_since_publish of the fresh
\* statistics
Refreshed(v, fresh) ==
  [v EXCEPT !.view_count = fresh.view_count,
            !.trending_score = fresh.trending_score,
            !.hours_since_publish = fresh.hours_since_publish,
            !.computed_at = fresh.computed_at,
            !.rounded = fresh.rounded]

\* lines 262-317 and 373-390: with real_time_trending, one videos.list call
\* through _make_api_call for the videos of the result, the trending ones
\* updated in place, and the result returned
TrendRefresh(real_time_trending, views) ==
  /\ fpc = "t_refresh"
  /\ LET all_video_ids == result.trending_videos \o result.trending_shorts
         cost == StatisticsCost(Len(all_video_ids))
         t == WaitEnd(cache, now)
         c == Unexpired(cache, t)
         fresh(id) == TrendingData([views |-> views[id],
                                    is_short |-> store[id].is_short,
                                    published |-> store[id].published], t)
     IN IF ~real_time_trending \/ all_video_ids = <<>>
        THEN UNCHANGED <<now, cache, sent, store, paid>>
        ELSE /\ now' = t
             /\ sent' = Append(sent, t)
             /\ paid' = Admitted(paid, cost)
             /\ cache' = RecordRequestCache(ConsumeQuotaCache(c, t, cost), t)
             /\ store' = [id \in DOMAIN store |->
                            IF id \in Range(all_video_ids)
                            THEN Refreshed(store[id], fresh(id)) ELSE store[id]]
  /\ req' = [req EXCEPT !.real_time_live = FALSE]
  /\ result' = [result EXCEPT !.at = IF real_time_trending THEN "refreshed"
                                     ELSE "returned"]
  /\ fpc' = "done"
  /\ UNCHANGED <<ticks, daily_limit, pc, loc, duration, order, lists,
               viewvars>>

\* time passes between the statements of the fetch
TrendTick ==
  /\ fpc \in {"t_select", "t_refresh"}
  /\ TickHour

NextTrend ==
  \/ \E ids \in IdSeqs : \E items \in [Range(ids) -> TrendItems] :
       TrendStatistics(ids, items)
  \/ TrendSelect
  \/ \E real_time_trending \in BOOLEAN :
       \E views \in [Range(result.trending_videos \o result.trending_shorts)
                       -> ViewCounts] :
         TrendRefresh(real_time_trending, views)
  \/ TrendTick

SpecTrend == InitTrend /\ [][NextTrend]_vars

(***************************************************************************)
(* The properties.                                                         *)
(***************************************************************************)
\* the consume_quota calls that returned True
Accepted == {p \in Callers : loc[p].op = "consume" /\ loc[p].result = "true"}

\* C1: consume_quota(c) called concurrently against a fresh daily budget of
\* limit L: within the day, (number of calls that returned True) * c never
\* exceeds L, whatever the interleaving of the callers' cache reads and writes.
C1_AcceptedWithinLimit ==
  \A c \in 1..MaxCost :
    (ticks = 0 /\ \A p \in Callers : loc[p].op = "consume" => loc[p].units = c)
      => Cardinality(Accepted) * c <= daily_limit

\* C2: during one channel fetch no paid upstream call is dispatched unless
\* the quota manager admitted its declared cost first, and when the fetch has
\* returned the daily counter has grown by the cost of every paid call made.
C2_PaidCallsAdmittedAndCharged ==
  /\ paid.unadmitted = 0
  /\ result.at = "returned" => GetDailyQuotaUsed(cache, now) = paid.units

\* C3: a consume_quota(cost) call that found dailyUsed + cost > dailyLimit
\* returned False and wrote nothing; one that found dailyUsed + cost <=
\* dailyLimit returned True and the stored daily counter grew by exactly cost.
C3_ConsumeAllOrNothing ==
  \A p \in Callers :
    (pc[p] = "done" /\ loc[p].op = "consume") =>
      IF loc[p].current_used + loc[p].units > daily_limit
      THEN loc[p].result = "false" /\ ~loc[p].wrote
      ELSE loc[p].result = "true" /\ loc[p].wrote /\ loc[p].grew = loc[p].units

\* C4: a caller of _make_api_call whose retry in wait_if_needed found a rate
\* window still saturated gets an error and makes no upstream call.
C4_NoDispatchWhileSaturated ==
  \A p \in Callers : ~loc[p].ok2 => ~loc[p].dispatched

\* the upstream calls made in the second, and in the minute, of the i-th one
DispatchedInSecond(i) == {j \in 1..Len(sent) : sent[j] = sent[i]}
DispatchedInMinute(i) ==
  {j \in 1..Len(sent) : sent[j] \div SecondsPerMinute = sent[i] \div SecondsPerMinute}

\* C5: for any interleaving of callers going through can_make_request, the
\* upstream call and record_request, the calls dispatched within one second
\* never exceed max_per_second and within one minute never exceed
\* max_per_minute.
C5_DispatchedWithinWindows ==
  \A i \in 1..Len(sent) :
    /\ Cardinality(DispatchedInSecond(i)) <= MaxPerSecond
    /\ Cardinality(DispatchedInMinute(i)) <= MaxPerMinute

\* C6: every _make_api_call that made its upstream call, the ones whose call
\* raised included, has added one to the per-second counter and one to the
\* per-minute counter by the time it ends.
C6_DispatchedCallRecorded ==
  \A p \in Callers :
    (pc[p] = "done" /\ loc[p].op = "api" /\ loc[p].dispatched) =>
      (loc[p].inc_second = 1 /\ loc[p].inc_minute = 1)

\* a merge step leaves every record of the dictionary as it is
RecordsKept ==
  fpc \in {"search", "playlist"} =>
    \A id \in DOMAIN store : id \in DOMAIN store' /\ store'[id] = store[id]

\* C7: while the search result and then the playlist are merged into the
\* dictionary of the fetch, the record an earlier source stored under an id
\* is never replaced: every id of the dictionary keeps its record.
C7_FirstSourceWins == [][RecordsKept]_vars

\* the list is in descending order of view_count
SortedByViews(s) ==
  \A i \in 1..(Len(s) - 1) : store[s[i]].view_count >= store[s[i + 1]].view_count

\* C8: in the result the inner fetch returns, whichever sources supplied the
\* videos, the videos list and the shorts list are each sorted by view_count,
\* descending.
C8_ListsSortedByViews ==
  result.at = "inner" => SortedByViews(result.videos) /\ SortedByViews(result.shorts)

NoDuplicates(s) == \A i, j \in 1..Len(s) : i # j => s[i] # s[j]

\* C9: in every fetch result the videos are at most max_videos and the shorts
\* at most max_shorts, no video is twice in a list, every video of videos has
\* is_short false and every video of shorts has is_short true.
C9_ListsBoundedAndPartitioned ==
  result.at \in {"inner", "wrapper", "returned"} =>
    /\ Len(result.videos) <= req.max_videos
    /\ Len(result.shorts) <= req.max_shorts
    /\ NoDuplicates(result.videos)
    /\ NoDuplicates(result.shorts)
    /\ \A i \in 1..Len(result.videos) : ~store[result.videos[i]].is_short
    /\ \A i \in 1..Len(result.shorts) : store[result.shorts[i]].is_short

\* C9 happens: a fetch returned max_videos videos out of more regular videos
\* than that, next to a short
C9_Witness ==
  /\ result.at = "returned"
  /\ Len(lists.regular_videos) > req.max_videos
  /\ Len(result.videos) = req.max_videos
  /\ Cardinality(DOMAIN store) = Cardinality(Ids)

\* C10: wherever a fetch result is returned, by the inner fetch, and by the
\* wrapper with or without the real-time refresh of the live videos, the live
\* slot holds at most one video.
C10_AtMostOneLive ==
  result.at \in {"inner", "wrapper", "returned"} => Len(result.live_videos) <= 1

\* C10 happens: a fetch with the real-time live refresh returned one live
\* video although two videos of the dictionary were taken as live
C10_Witness ==
  /\ result.at = "returned"
  /\ req.real_time_live
  /\ sent # <<>>
  /\ Cardinality(LiveCandidates(store)) > 1
  /\ Len(result.live_videos) = 1

\* the pair (concurrent viewers with None as 0, views) of a stored video
ViewersThenViews(id) ==
  <<IF store[id].live_viewers = None THEN 0 ELSE store[id].live_viewers,
    store[id].view_count>>

\* C11: in the result of the inner fetch, and after the wrapper's live sort,
\* the live slot is filled whenever a video counts as live, and the video in
\* it is a maximum of the live candidates under (viewers with None as 0,
\* views): no candidate has more viewers, or as many viewers and more views.
C11_LiveSlotIsMaximum ==
  result.at \in {"inner", "wrapper"} =>
    /\ LiveCandidates(store) # {} => Len(result.live_videos) = 1
    /\ \A i \in 1..Len(result.live_videos) : \A c \in LiveCandidates(store) :
         ~KeyLess(ViewersThenViews(result.live_videos[i]), ViewersThenViews(c))

\* C11 happens: a candidate with viewers and fewer views was kept over a
\* candidate without a viewer count and more views
C11_Witness ==
  /\ result.at = "wrapper"
  /\ Len(result.live_videos) = 1
  /\ \E c \in LiveCandidates(store) :
       /\ store[c].live_viewers = None
       /\ store[result.live_videos[1]].live_viewers # None
       /\ store[c].view_count > store[result.live_videos[1]].view_count

\* seconds between the publish time of a stored video and the instant its
\* trending fields were computed
AgeOf(id) == store[id].computed_at - store[id].published

\* the score q is x / y, or, where the code stores round(score, 2), the
\* hundredths nearest to x / y
ScoreIs(v, x, y) ==
  IF v.rounded
  THEN /\ v.trending_score.den = 100
       /\ 2 * (v.trending_score.num * y - 100 * x) <= y
       /\ 2 * (100 * x - v.trending_score.num * y) <= y
  ELSE v.trending_score.num * y = x * v.trending_score.den

\* C12: for every video out of get_video_statistics or out of the
\* recomputation of fetch_channel_videos, with h the hours since publish:
\* is_trending iff 0 <= h <= 3; not trending, the score is 0; trending with
\* h < 0.1, the score is view_count * 10; trending with h >= 0.1, the score
\* is view_count / h (get_video_statistics stores it rounded to two decimals).
C12_TrendingFields ==
  fpc \in {"t_select", "t_refresh"} =>
    \A id \in DOMAIN store :
      LET v == store[id]
          s == AgeOf(id)
      IN /\ v.is_trending <=> (0 <= s /\ s <= 3 * SecondsPerHour)
         /\ ~v.is_trending => v.trending_score.num = 0
         /\ (v.is_trending /\ s * 10 < SecondsPerHour)
              => ScoreIs(v, v.view_count * 10, 1)
         /\ (v.is_trending /\ s * 10 >= SecondsPerHour)
              => ScoreIs(v, v.view_count * SecondsPerHour, s)

\* C12 happens: after the recomputation one video is exactly three hours old
\* and trending, another is three minutes old and carries ten times its views
C12_Witness ==
  /\ fpc = "t_refresh"
  /\ \E a, b \in DOMAIN store :
       /\ AgeOf(a) = 3 * SecondsPerHour
       /\ store[a].is_trending
       /\ store[a].trending_score.num * 3 = store[a].view_count * store[a].trending_score.den
       /\ AgeOf(b) = 3 * SecondsPerMinute
       /\ store[b].trending_score.num = 10 * store[b].view_count * store[b].trending_score.den

\* C13: a fetch with the real-time live refresh returns no video in the live
\* slot that upstream, at the refresh, reports as no longer live, whether or
\* not that video is also in the videos, shorts or trending lists.
C13_EndedLiveRemoved ==
  (result.at = "returned" /\ req.real_time_live) => result.ended = {}

\* the list is in descending order of the stored trending_score
SortedByTrendingScore(s) ==
  \A i \in 1..(Len(s) - 1) :
    ~ScoreLess(store[s[i]].trending_score, store[s[i + 1]].trending_score)

\* every video of the list is, at the instant of its statistics, inside the
\* trending window
AllStillTrending(s) == \A i \in 1..Len(s) : InTrendWindow(AgeOf(s[i]))

\* C14: in a result returned after the real-time trending refresh, each
\* trending list is sorted by the refreshed trending_score, descending, has
\* at most three videos, and holds only videos that the fresh statistics
\* still count as trending.
C14_TrendingReselected ==
  result.at = "refreshed" =>
    /\ SortedByTrendingScore(result.trending_videos)
    /\ SortedByTrendingScore(result.trending_shorts)
    /\ Len(result.trending_videos) <= TopTrending
    /\ Len(result.trending_shorts) <= TopTrending
    /\ AllStillTrending(result.trending_videos)
    /\ AllStillTrending(result.trending_shorts)

\* C15: a failure of the channel-metadata call does not end the fetch of a
\* resolved channel: no fetch ends with the exception get_channel_info
\* raised.
C15_ChannelInfoFailureNotFatal ==
  ~(fpc = "done" /\ result.at = "raised" /\ result.error = "channel_info")

(***************************************************************************)
(* Text.  A str is a sequence of one-character strings, so that re.search, *)
(* str.lower, str.strip and the `in` operator are computed as Python       *)
(* computes them.                                                          *)
(***************************************************************************)
MaxBatch == 2         \* most references in one batch request
MaxChannels == 10     \* references post accepts in one request
IdTail == 22          \* id characters that follow UC in a channel id

IdChars ==
  {"a", "b", "c", "d", "e", "f", "g", "h", "i", "j",
         "k", "l", "m", "n", "o", "p", "q", "r", "s", "t",
         "u", "v", "w", "x", "y", "z", "A", "B", "C", "D",
         "E", "F", "G", "H", "I", "J", "K", "L", "M", "N",
         "O", "P", "Q", "R", "S", "T", "U", "V", "W", "X",
         "Y", "Z", "0", "1", "2", "3", "4", "5", "6", "7",
         "8", "9", "_", "-"}
\* str.lower()
Lower(s) ==
  LET Uppercase ==
        <<"A", "B", "C", "D", "E", "F", "G", "H", "I", "J",
         "K", "L", "M", "N", "O", "P", "Q", "R", "S", "T",
         "U", "V", "W", "X", "Y", "Z">>
      Lowercase ==
        <<"a", "b", "c", "d", "e", "f", "g", "h", "i", "j",
         "k", "l", "m", "n", "o", "p", "q", "r", "s", "t",
         "u", "v", "w", "x", "y", "z">>
      LowerChar(c) ==
        IF \E k \in 1..Len(Uppercase) : Uppercase[k] = c
        THEN Lowercase[CHOOSE k \in 1..Len(Uppercase) : Uppercase[k] = c]
        ELSE c
  IN  [k \in 1..Len(s) |-> LowerChar(s[k])]

\* str.strip()
RECURSIVE Strip(_)
Strip(s) ==
  LET Whitespace == {" ", "\t", "\n", "\r"}
  IN  IF s = <<>> THEN s
      ELSE IF Head(s) \in Whitespace THEN Strip(Tail(s))
      ELSE IF s[Len(s)] \in Whitespace THEN Strip(SubSeq(s, 1, Len(s) - 1))
      ELSE s

\* lit occurs in s at position k; `lit in s`
LitAt(s, lit, k) ==
  /\ k + Len(lit) - 1 <= Len(s)
  /\ SubSeq(s, k, k + Len(lit) - 1) = lit
Contains(s, lit) == \E k \in 1..Len(s) : LitAt(s, lit, k)

\* the longest run of [a-zA-Z0-9_-] that starts at position k of s
RECURSIVE IdRun(_, _)
IdRun(s, k) ==
  IF k <= Len(s) /\ s[k] \in IdChars THEN <<s[k]>> \o IdRun(s, k + 1)
  ELSE <<>>

\* re.search(r'<lit>([a-zA-Z0-9_-]+)', s).group(1) for the leftmost match of
\* one of the literals; <<>> when there is no match
SearchGroup(s, lits) ==
  LET hits == {k \in 1..Len(s) :
                 \E lit \in lits : LitAt(s, lit, k)
                                   /\ IdRun(s, k + Len(lit)) # <<>>}
  IN  IF hits = {} THEN <<>>
      ELSE LET k == CHOOSE h \in hits : \A g \in hits : h <= g
               lit == CHOOSE l \in lits : LitAt(s, l, k)
                                          /\ IdRun(s, k + Len(l)) # <<>>
           IN  IdRun(s, k + Len(lit))

ChannelLit == <<"/", "c", "h", "a", "n", "n", "e", "l", "/">>
UsernameLits == {<<"/", "c", "/">>, <<"/", "u", "s", "e", "r", "/">>}
HandleLit == <<"/", "@">>
UCLit == <<"U", "C">>
QuotaLit == <<"q", "u", "o", "t", "a">>
QuotaExceededLit == <<"q", "u", "o", "t", "a", "E", "x", "c", "e", "e",
         "d", "e", "d">>

NeverId(s) == FALSE

\* re.match(r'^UC[a-zA-Z0-9_-]{22}$', s); `$` also matches before a final
\* newline
AlreadyId(s) ==
  /\ \/ Len(s) = Len(UCLit) + IdTail
     \/ Len(s) = Len(UCLit) + IdTail + 1 /\ s[Len(s)] = "\n"
  /\ LitAt(s, UCLit, 1)
  /\ \A k \in Len(UCLit) + 1 .. Len(UCLit) + IdTail : s[k] \in IdChars

IfAlreadyId(s) == IF AlreadyId(s) THEN s ELSE <<>>

(***************************************************************************)
(* The channel references of a request, and the id upstream answers with.  *)
(***************************************************************************)
CanonicalRef == UCLit \o [k \in 1..IdTail |-> "x"]
SomeChannelId == <<"U", "C", "a", "b">>
Refs == {CanonicalRef,                  \* a channel id
         ChannelLit \o SomeChannelId,   \* a /channel/ URL
         HandleLit \o <<"a", "b">>,  \* a handle URL
         HandleLit \o QuotaLit,         \* the handle URL of @quota
         <<"/", "c", "/", "a", "b">>,    \* a custom URL
         <<"a", "b", " ">>}              \* not a reference, and padded

RECURSIVE SeqsUpTo(_, _)
SeqsUpTo(S, n) ==
  IF n = 0 THEN {<<>>}
  ELSE LET shorter == SeqsUpTo(S, n - 1)
       IN  shorter \cup {Append(s, x) : s \in {t \in shorter : Len(t) = n - 1},
                                        x \in S}

(***************************************************************************)
(* The texts of the errors.                                                *)
(***************************************************************************)
WrapperExtractError(channel_url) ==
  <<"C", "o", "u", "l", "d", " ", "n", "o", "t", " ",
         "e", "x", "t", "r", "a", "c", "t", " ", "c", "h",
         "a", "n", "n", "e", "l", " ", "I", "D", " ", "f",
         "r", "o", "m", " ", "U", "R", "L", ":", " ">> \o channel_url

ServiceExtractError(channel_url) ==
  IF Contains(channel_url, HandleLit)
  THEN <<"C", "o", "u", "l", "d", " ", "n", "o", "t", " ",
         "e", "x", "t", "r", "a", "c", "t", " ", "c", "h",
         "a", "n", "n", "e", "l", " ", "I", "D", " ", "f",
         "r", "o", "m", " ", "@", "h", "a", "n", "d", "l",
         "e", " ", "U", "R", "L", ":", " ">> \o channel_url
       \o <<".", " ", "T", "h", "i", "s", " ", "h", "a", "p",
         "p", "e", "n", "s", " ", "w", "h", "e", "n", " ",
         "S", "e", "a", "r", "c", "h", " ", "A", "P", "I",
         " ", "i", "s", " ", "b", "l", "o", "c", "k", "e",
         "d", " ", "o", "r", " ", "q", "u", "o", "t", "a",
         " ", "e", "x", "c", "e", "e", "d", "e", "d", ".",
         " ", "P", "l", "e", "a", "s", "e", " ", "u", "s",
         "e", " ", "c", "h", "a", "n", "n", "e", "l", " ",
         "I", "D", " ", "U", "R", "L", " ", "f", "o", "r",
         "m", "a", "t", " ", "i", "n", "s", "t", "e", "a",
         "d", ":", " ", "h", "t", "t", "p", "s", ":", "/",
         "/", "w", "w", "w", ".", "y", "o", "u", "t", "u",
         "b", "e", ".", "c", "o", "m", "/", "c", "h", "a",
         "n", "n", "e", "l", "/", "U", "C", "x", "x", "x",
         "x", "x">>
  ELSE <<"C", "o", "u", "l", "d", " ", "n", "o", "t", " ",
         "e", "x", "t", "r", "a", "c", "t", " ", "c", "h",
         "a", "n", "n", "e", "l", " ", "I", "D", " ", "f",
         "r", "o", "m", " ", "U", "R", "L", ":", " ">> \o channel_url
       \o <<".", " ", "P", "l", "e", "a", "s", "e", " ", "e",
         "n", "s", "u", "r", "e", " ", "t", "h", "e", " ",
         "U", "R", "L", " ", "i", "s", " ", "i", "n", " ",
         "a", " ", "v", "a", "l", "i", "d", " ", "f", "o",
         "r", "m", "a", "t", ".">>

ChannelNotFound(channel_id) ==
  <<"C", "h", "a", "n", "n", "e", "l", " ">> \o channel_id \o <<" ", "n", "o", "t", " ", "f", "o", "u", "n", "d",
         " ", "o", "r", " ", "i", "n", "a", "c", "c", "e",
         "s", "s", "i", "b", "l", "e">>

GetChannelInfoError(channel_id, error_msg) ==
  IF Contains(Lower(error_msg), QuotaLit)
     \/ Contains(error_msg, QuotaExceededLit)
  THEN <<"A", "P", "I", " ", "q", "u", "o", "t", "a", " ",
         "e", "x", "c", "e", "e", "d", "e", "d", ".", " ",
         "D", "a", "i", "l", "y", " ", "l", "i", "m", "i",
         "t", " ", "(", "1", "0", ",", "0", "0", "0", " ",
         "u", "n", "i", "t", "s", ")", " ", "r", "e", "a",
         "c", "h", "e", "d", ".", " ", "P", "l", "e", "a",
         "s", "e", " ", "t", "r", "y", " ", "a", "g", "a",
         "i", "n", " ", "t", "o", "m", "o", "r", "r", "o",
         "w", " ", "(", "r", "e", "s", "e", "t", "s", " ",
         "a", "t", " ", "m", "i", "d", "n", "i", "g", "h",
         "t", " ", "P", "a", "c", "i", "f", "i", "c", " ",
         "T", "i", "m", "e", ")", " ", "o", "r", " ", "r",
         "e", "q", "u", "e", "s", "t", " ", "a", " ", "q",
         "u", "o", "t", "a", " ", "i", "n", "c", "r", "e",
         "a", "s", "e", " ", "i", "n", " ", "G", "o", "o",
         "g", "l", "e", " ", "C", "l", "o", "u", "d", " ",
         "C", "o", "n", "s", "o", "l", "e", ".">>
  ELSE IF \/ Contains(Lower(error_msg), <<"e", "x", "p", "i", "r", "e", "d">>)
          \/ Contains(error_msg, <<"4", "0", "3">>)
          \/ Contains(error_msg, <<"4", "0", "0">>)
  THEN <<"A", "P", "I", " ", "k", "e", "y", " ", "i", "s",
         "s", "u", "e", ":", " ">> \o error_msg
       \o <<".", " ", "P", "l", "e", "a", "s", "e", " ", "c",
         "h", "e", "c", "k", " ", "y", "o", "u", "r", " ",
         "A", "P", "I", " ", "k", "e", "y", " ", "i", "s",
         " ", "v", "a", "l", "i", "d", " ", "a", "n", "d",
         " ", "h", "a", "s", " ", "p", "r", "o", "p", "e",
         "r", " ", "p", "e", "r", "m", "i", "s", "s", "i",
         "o", "n", "s", ".">>
  ELSE <<"C", "o", "u", "l", "d", " ", "n", "o", "t", " ",
         "g", "e", "t", " ", "u", "p", "l", "o", "a", "d",
         "s", " ", "p", "l", "a", "y", "l", "i", "s", "t",
         " ", "f", "o", "r", " ", "c", "h", "a", "n", "n",
         "e", "l", " ">> \o channel_id
       \o <<":", " ">> \o error_msg

NoVideosError ==
  <<"N", "o", " ", "v", "i", "d", "e", "o", "s", " ",
         "f", "o", "u", "n", "d", " ", "o", "r", " ", "c",
         "o", "u", "l", "d", " ", "n", "o", "t", " ", "r",
         "e", "t", "r", "i", "e", "v", "e", " ", "v", "i",
         "d", "e", "o", " ", "d", "a", "t", "a">>

(***************************************************************************)
(* extract_channel_id and _get_channel_id_from_handle.  resolver.trace lists    *)
(* the strategies tried for a handle and whether each yielded an id.       *)
(***************************************************************************)
StartResolve(channel_url, caller) ==
  [NoRes EXCEPT !.url = channel_url, !.caller = caller,
                !.use_search_api = resolver.use_search_api]

Extract ==
  /\ rpc = "extract"
  /\ LET channel == SearchGroup(resolver.url, {ChannelLit})
         username == SearchGroup(resolver.url, UsernameLits)
         handle == SearchGroup(resolver.url, {HandleLit})
     IN  IF channel # <<>>
         THEN /\ resolver' = [resolver EXCEPT !.channel_id = channel]
              /\ rpc' = "extracted"
         ELSE IF username # <<>>
         THEN /\ resolver' = [resolver EXCEPT !.handle = username]
              /\ rpc' = "username"
         ELSE IF handle # <<>>
         THEN /\ resolver' = [resolver EXCEPT !.handle = handle]
              /\ rpc' = "scrape"
         ELSE /\ resolver' = [resolver EXCEPT !.channel_id = IfAlreadyId(resolver.url)]
              /\ rpc' = "extracted"
  /\ UNCHANGED <<callvars, fetchvars, batch, parse, pager>>

GetChannelIdFromUsername(found) ==
  /\ rpc = "username"
  /\ resolver' = [resolver EXCEPT !.lookups = @ + 1,
                        !.channel_id = IF found THEN SomeChannelId ELSE <<>>]
  /\ rpc' = "extracted"
  /\ UNCHANGED <<callvars, fetchvars, batch, parse, pager>>

SearchAlways(use_search_api) == TRUE
SearchAllowed(use_search_api) == use_search_api

Tried(strategy, found) ==
  Append(resolver.trace, [strategy |-> strategy, found |-> found])

Scrape(found) ==
  /\ rpc = "scrape"
  /\ IF found
     THEN /\ resolver' = [resolver EXCEPT !.scrapes = @ + 1,
                                !.trace = Tried("scrape", TRUE),
                                !.channel_id = SomeChannelId]
          /\ rpc' = "extracted"
     ELSE IF ~SearchAllowed(resolver.use_search_api)
     THEN /\ resolver' = [resolver EXCEPT !.scrapes = @ + 1,
                                !.trace = Tried("scrape", FALSE),
                                !.channel_id = IfAlreadyId(resolver.url)]
          /\ rpc' = "extracted"
     ELSE /\ resolver' = [resolver EXCEPT !.scrapes = @ + 1,
                                !.trace = Tried("scrape", FALSE)]
          /\ rpc' = "search1"
  /\ UNCHANGED <<callvars, fetchvars, batch, parse, pager>>

NextVariant(variant) ==
  IF variant = "search1" THEN "search2"
  ELSE IF variant = "search2" THEN "search3"
  ELSE "extracted"

HandleSearch(found) ==
  /\ rpc \in {"search1", "search2", "search3"}
  /\ IF found
     THEN /\ resolver' = [resolver EXCEPT !.searches = @ + 1,
                                !.trace = Tried(rpc, TRUE),
                                !.channel_id = SomeChannelId]
          /\ rpc' = "extracted"
     ELSE /\ resolver' = [resolver EXCEPT !.searches = @ + 1,
                                !.trace = Tried(rpc, FALSE),
                                !.channel_id =
                                  IF NextVariant(rpc) = "extracted"
                                  THEN IfAlreadyId(resolver.url) ELSE <<>>]
          /\ rpc' = NextVariant(rpc)
  /\ UNCHANGED <<callvars, fetchvars, batch, parse, pager>>

(***************************************************************************)
(* YouTubeAnalyzerAPIView.post.  Each entry of results and errors carries  *)
(* the position of its reference in channel_urls and the cause of the      *)
(* outcome, which the program does not store.                              *)
(***************************************************************************)
InitBatch ==
  /\ now = FetchStartTime
  /\ ticks = 0
  /\ cache = EmptyCache
  /\ daily_limit = DefaultDailyLimit
  /\ pc = [p \in Callers |-> "idle"]
  /\ loc = [p \in Callers |-> NoCall]
  /\ sent = <<>>
  /\ FetchIdle
  /\ batch \in {[NoBatch EXCEPT !.urls = u] : u \in SeqsUpTo(Refs, MaxBatch)}
  /\ rpc = "post"
  /\ resolver \in {[NoRes EXCEPT !.use_search_api = f] : f \in BOOLEAN}
  /\ parse = NoParse
  /\ pager = NoPager

Post ==
  /\ rpc = "post"
  /\ IF batch.urls = <<>> \/ Len(batch.urls) > MaxChannels
     THEN /\ batch' = [batch EXCEPT !.status = 400]
          /\ rpc' = "done"
     ELSE /\ batch' = [batch EXCEPT !.i = 1]
          /\ rpc' = "loop"
  /\ UNCHANGED <<callvars, fetchvars, resolver, parse, pager>>

\* for channel_url in channel_urls: the wrapper's fetch_channel_videos
\* starts by resolving channel_url.strip()
LoopNext ==
  /\ rpc = "loop"
  /\ batch.i <= Len(batch.urls)
  /\ resolver' = StartResolve(Strip(batch.urls[batch.i]), "wrapper")
  /\ rpc' = "extract"
  /\ UNCHANGED <<callvars, fetchvars, batch, parse, pager>>

CaughtSilently(error_str, cause) == [batch EXCEPT !.i = @ + 1]

\* except Exception as e, with error_str = str(e)
Caught(error_str, cause) ==
  [batch EXCEPT !.i = @ + 1,
                !.errors = Append(@, [ref |-> batch.i,
                                      channel_url |-> batch.urls[batch.i],
                                      error |-> error_str,
                                      quota_exceeded |->
                                        Contains(Lower(error_str), QuotaLit),
                                      cause |-> cause])]

\* fetch_channel_videos returned channel_data
Returned(channel_data) ==
  IF channel_data.error # <<>>
     /\ Contains(Lower(channel_data.error), QuotaLit)
  THEN [batch EXCEPT !.i = @ + 1,
                     !.errors = Append(@, [ref |-> batch.i,
                                           channel_url |-> batch.urls[batch.i],
                                           error |-> channel_data.error,
                                           quota_exceeded |-> TRUE,
                                           cause |-> channel_data.cause])]
  ELSE [batch EXCEPT !.i = @ + 1, !.results = Append(@, channel_data)]

WrapperExtracted ==
  /\ rpc = "extracted"
  /\ resolver.caller = "wrapper"
  /\ IF resolver.channel_id = <<>>
     THEN /\ batch' = Caught(WrapperExtractError(resolver.url), "resolution")
          /\ rpc' = "loop"
          /\ resolver' = resolver
     ELSE /\ batch' = batch
          /\ rpc' = "extract"
          /\ resolver' = StartResolve(resolver.url, "service")
  /\ UNCHANGED <<callvars, fetchvars, parse, pager>>

ServiceExtracted ==
  /\ rpc = "extracted"
  /\ resolver.caller = "service"
  /\ IF resolver.channel_id = <<>>
     THEN /\ batch' = Caught(ServiceExtractError(resolver.url), "resolution")
          /\ rpc' = "loop"
     ELSE /\ batch' = batch
          /\ rpc' = "fetch"
  /\ UNCHANGED <<callvars, fetchvars, resolver, parse, pager>>

\* the rest of fetch_channel_videos, by what it hands to post: channels.list
\* fails for want of quota or for an unknown channel, or the fetch returns
\* with or without videos
ServiceFetch(outcome) ==
  /\ rpc = "fetch"
  /\ batch' =
       IF outcome = "budget"
       THEN Caught(GetChannelInfoError(resolver.channel_id, QuotaExceededLit),
                   "budget")
       ELSE IF outcome = "upstream"
       THEN Caught(GetChannelInfoError(resolver.channel_id,
                                       ChannelNotFound(resolver.channel_id)),
                   "upstream")
       ELSE IF outcome = "no_content"
       THEN Returned([ref |-> batch.i, channel_url |-> resolver.url,
                      error |-> NoVideosError, cause |-> "no_content"])
       ELSE Returned([ref |-> batch.i, channel_url |-> resolver.url,
                      error |-> <<>>, cause |-> "ok"])
  /\ rpc' = "loop"
  /\ UNCHANGED <<callvars, fetchvars, resolver, parse, pager>>

Respond ==
  /\ rpc = "loop"
  /\ batch.i > Len(batch.urls)
  /\ batch' = [batch EXCEPT !.status = 200,
                            !.total_channels_processed = Len(batch.results),
                            !.total_channels_failed = Len(batch.errors)]
  /\ rpc' = "done"
  /\ UNCHANGED <<callvars, fetchvars, resolver, parse, pager>>

NextBatch ==
  \/ Post
  \/ LoopNext
  \/ Extract
  \/ \E found \in BOOLEAN : GetChannelIdFromUsername(found)
  \/ \E found \in BOOLEAN : Scrape(found)
  \/ \E found \in BOOLEAN : HandleSearch(found)
  \/ WrapperExtracted
  \/ ServiceExtracted
  \/ \E outcome \in {"ok", "no_content", "budget", "upstream"} :
       ServiceFetch(outcome)
  \/ Respond

SpecBatch == InitBatch /\ [][NextBatch]_vars

(***************************************************************************)
(* Properties of the batch request and of the resolver.                    *)
(***************************************************************************)
Entries == {batch.results[k] : k \in 1..Len(batch.results)}
           \cup {batch.errors[k] : k \in 1..Len(batch.errors)}
Processed == IF batch.i = 0 THEN 0 ELSE batch.i - 1

\* post has a next step to take: it is at one of its blocks, and a resolver
\* that returned has a caller to return to
Running ==
  /\ rpc \in {"post", "loop", "extract", "username", "scrape", "search1",
              "search2", "search3", "extracted", "fetch"}
  /\ rpc = "extracted" => resolver.caller \in {"wrapper", "service"}

C17_QuotaFlagIffBudget ==
  \A k \in 1..Len(batch.errors) :
    batch.errors[k].quota_exceeded <=> batch.errors[k].cause = "budget"

\* C18: a channel that resolves but has no videos is listed among the
\* errors, never among the results.
C18_NoContentIsAnError ==
  \A k \in 1..Len(batch.results) : batch.results[k].cause # "no_content"

Strategies == <<"scrape", "search1", "search2", "search3">>

\* C19: a handle is resolved by scraping first and then by at most three
\* paid searches, in that order; no strategy is tried after one yielded an
\* id, whose id is the one returned; no search is issued unless scraping
\* failed and USE_SEARCH_API is set; with the flag unset a failed scrape
\* makes the resolution return nothing.
C19_HandleStrategiesInOrder ==
  LET t == resolver.trace
  IN  /\ Len(t) <= Len(Strategies)
      /\ \A k \in 1..Len(t) : t[k].strategy = Strategies[k]
      /\ \A k \in 1..(Len(t) - 1) : ~t[k].found
      /\ resolver.scrapes = Min(Len(t), 1)
      /\ resolver.searches = Len(t) - resolver.scrapes
      /\ ~resolver.use_search_api => resolver.searches = 0
      /\ rpc \in {"search1", "search2", "search3"} => resolver.use_search_api
      /\ rpc = "extracted" /\ t # <<>> =>
           /\ resolver.channel_id # <<>> <=> t[Len(t)].found
           /\ ~t[Len(t)].found =>
                Len(t) = IF resolver.use_search_api THEN Len(Strategies)
                         ELSE 1

\* C19 witness: the scrape and the first search fail and the second search
\* yields the id.
C19_Witness ==
  /\ rpc = "extracted"
  /\ Len(resolver.trace) = 3
  /\ resolver.trace[3].found
  /\ resolver.channel_id = SomeChannelId

\* C20: a reference that is already a channel id, UC and 22 id characters,
\* is returned as it is, without a scrape, a search, a channels.list lookup
\* or any quota being consumed.
C20_CanonicalIdUnchanged ==
  resolver.url = CanonicalRef =>
    /\ rpc \notin {"username", "scrape", "search1", "search2", "search3"}
    /\ resolver.scrapes = 0 /\ resolver.searches = 0 /\ resolver.lookups = 0
    /\ paid = NoPaid /\ cache = EmptyCache /\ sent = <<>>
    /\ rpc \in {"extracted", "fetch"} => resolver.channel_id = CanonicalRef

\* C20 witness: the resolver has returned the channel id it was given.
C20_Witness ==
  /\ rpc = "extracted"
  /\ resolver.url = CanonicalRef
  /\ resolver.channel_id = CanonicalRef

(***************************************************************************)
(* Properties of the quota counter over time.                              *)
(***************************************************************************)
\* the clock advances from an instant past the last 08:00 UTC and its hour of
\* grace without reaching the next 08:00 UTC, and the daily counter reads no
\* less than before
DailyKeptByClock ==
  (/\ now' # now
   /\ now >= TomorrowUtc(now) - SecondsPerDay + ExpiryBuffer
   /\ now' < TomorrowUtc(now)) =>
    GetDailyQuotaUsed(cache', now') >= GetDailyQuotaUsed(cache, now)

\* C21: the units counted in dailyUsed stay counted while the clock advances
\* until the next reset boundary, 08:00 UTC; they are dropped at no other
\* instant.
C21_ResetOnlyAtBoundary == [][DailyKeptByClock]_vars

\* C28: in _make_api_call, the consume_quota that follows an admitted and
\* successful upstream call never returns False.
C28_AdmittedCallIsCharged ==
  \A p \in Callers :
    (loc[p].op = "api" /\ loc[p].dispatched) => loc[p].consumed # "false"

\* C30: consume_quota never raises, whatever the instant of the call.
C30_ConsumeNeverRaises ==
  \A p \in Callers : loc[p].op = "consume" => loc[p].consumed # "raised"

\* what the cache holds under today's key, expired or not
StoredDailyUsed ==
  IF TodayKey(now) \in DOMAIN cache THEN cache[TodayKey(now)].val ELSE 0

\* C29: whatever the interleaving of consume_quota, can_make_request and
\* reset_quota calls, every daily counter in the cache is between 0 and
\* daily_limit, so get_remaining_quota is daily_limit - dailyUsed and
\* get_quota_status reports a percentage between 0 and 100.
C29_DailyUsedWithinLimit ==
  LET status == GetQuotaStatus(cache, now, daily_limit)
  IN  /\ \A k \in DOMAIN cache :
           k[1] = TodayKey(now)[1] =>
             cache[k].val >= 0 /\ cache[k].val <= daily_limit
      /\ status.used >= 0 /\ status.used <= daily_limit
      /\ status.remaining = daily_limit - status.used
      /\ status.percentage.num >= 0
      /\ status.percentage.num <= 100 * status.percentage.den

\* C29 witness: a reset_quota and a consume_quota have both run, and the
\* counter stands at the limit.
C29_Witness ==
  /\ \E p \in Callers : loc[p].op = "reset_quota" /\ pc[p] = "done"
  /\ \E p \in Callers : loc[p].op = "consume" /\ loc[p].result = "true"
  /\ GetDailyQuotaUsed(cache, now) = daily_limit

\* C22: a call made without cache bypass while the cache holds an unexpired
\* response for its endpoint and params dispatches no upstream call, consumes
\* no quota and changes no rate-window counter.
C22_CacheHitMakesNoCall ==
  \A p \in Callers :
    (loc[p].op = "api" /\ loc[p].hit /\ ~loc[p].bypass_cache) =>
      /\ ~loc[p].dispatched
      /\ loc[p].consumed = "none"
      /\ loc[p].inc_second = 0 /\ loc[p].inc_minute = 0

(***************************************************************************)
(* Parsing: durations and counts.  A number is read from and written to    *)
(* its decimal digits.                                                     *)
(***************************************************************************)
DigitChars == <<"0", "1", "2", "3", "4", "5", "6", "7", "8", "9">>

\* str.isdigit()
IsDigit(s) == s # <<>> /\ \A k \in 1..Len(s) : \E d \in 1..10 : DigitChars[d] = s[k]

\* int(s) for a string of digits
RECURSIVE ParseInt(_)
ParseInt(s) ==
  IF s = <<>> THEN 0
  ELSE ParseInt(SubSeq(s, 1, Len(s) - 1)) * 10
       + (CHOOSE d \in 1..10 : DigitChars[d] = s[Len(s)]) - 1

\* the decimal digits of n, as upstream writes a number
RECURSIVE Digits(_)
Digits(n) ==
  IF n < 10 THEN <<DigitChars[n + 1]>>
  ELSE Digits(n \div 10) \o <<DigitChars[(n % 10) + 1]>>

\* the longest run of digits that starts at position k of s
RECURSIVE DigitRun(_, _)
DigitRun(s, k) ==
  IF k <= Len(s) /\ IsDigit(<<s[k]>>) THEN <<s[k]>> \o DigitRun(s, k + 1)
  ELSE <<>>

\* (?:(\d+)X)? at position k of s: the group, <<>> when it does not take
\* part in the match, and the position after it
DurationGroup(s, k, letter) ==
  LET run == DigitRun(s, k)
      end == k + Len(run)
  IN  IF run # <<>> /\ end <= Len(s) /\ s[end] = letter
      THEN [group |-> run, next |-> end + 1]
      ELSE [group |-> <<>>, next |-> k]

\* _is_short_video, lines 501-513: total_seconds, or None where the function
\* returns False before computing it
DurationSeconds(text) ==
  IF text = <<>> THEN None
  ELSE IF ~LitAt(text, <<"P", "T">>, 1) THEN None
  ELSE LET h == DurationGroup(text, 3, "H")
           m == DurationGroup(text, h.next, "M")
           sec == DurationGroup(text, m.next, "S")
       IN  ParseInt(h.group) * SecondsPerHour
           + ParseInt(m.group) * SecondsPerMinute
           + ParseInt(sec.group)

\* float(s) for s in decimal notation, as the fraction num / den; ok is
\* FALSE where float raises ValueError.  Signs, exponents, inf and nan are
\* not modelled.
ParseFloat(s) ==
  LET dots == {k \in 1..Len(s) : s[k] = "."}
  IN  IF dots = {}
      THEN [ok |-> IsDigit(s), num |-> IF IsDigit(s) THEN ParseInt(s) ELSE 0,
            den |-> 1]
      ELSE LET k == CHOOSE d \in dots : TRUE
               whole == SubSeq(s, 1, k - 1)
               frac == SubSeq(s, k + 1, Len(s))
               ok == /\ Cardinality(dots) = 1
                     /\ whole \o frac # <<>>
                     /\ whole = <<>> \/ IsDigit(whole)
                     /\ frac = <<>> \/ IsDigit(frac)
           IN  [ok |-> ok,
                num |-> IF ok THEN ParseInt(whole \o frac) ELSE 0,
                den |-> IF ok THEN 10 ^ Len(frac) ELSE 1]

\* YouTubeScraper._parse_count; the product number * scale is computed
\* exactly
ParseCount(text) ==
  LET Remove(s, ch) == Filter(s, Range(s) \ {ch})
      Upper(s) ==
        LET Lowercase ==
              <<"a", "b", "c", "d", "e", "f", "g", "h", "i", "j",
         "k", "l", "m", "n", "o", "p", "q", "r", "s", "t",
         "u", "v", "w", "x", "y", "z">>
            Uppercase ==
              <<"A", "B", "C", "D", "E", "F", "G", "H", "I", "J",
         "K", "L", "M", "N", "O", "P", "Q", "R", "S", "T",
         "U", "V", "W", "X", "Y", "Z">>
        IN  [k \in 1..Len(s) |->
               IF \E j \in 1..Len(Lowercase) : Lowercase[j] = s[k]
               THEN Uppercase[CHOOSE j \in 1..Len(Lowercase) :
                                Lowercase[j] = s[k]]
               ELSE s[k]]
      t == Upper(Strip(Remove(text, ",")))
      Scaled(letter, scale) ==
        LET number == ParseFloat(Remove(t, letter))
        IN  IF number.ok
            THEN [raised |-> FALSE,
                  count |-> (number.num * scale) \div number.den]
            ELSE [raised |-> TRUE, count |-> 0]
  IN  IF text = <<>> THEN [raised |-> FALSE, count |-> 0]
      ELSE IF Contains(t, <<"M">>) THEN Scaled("M", 1000000)
      ELSE IF Contains(t, <<"K">>) THEN Scaled("K", 1000)
      ELSE IF Contains(t, <<"B">>) THEN Scaled("B", 1000000000)
      ELSE IF ParseFloat(t).ok
      THEN [raised |-> FALSE, count |-> ParseFloat(t).num \div ParseFloat(t).den]
      ELSE [raised |-> FALSE, count |-> 0]

\* get_sort_key: views_int for a view_count that is a str, <<>> standing
\* for None
SortKeyInt(view_count) ==
  IF view_count = <<>> THEN 0
  ELSE IF IsDigit(view_count) THEN ParseInt(view_count) ELSE 0

(***************************************************************************)
(* The arguments: durations as upstream writes them, PT#H#M#S with any     *)
(* part left out, and count texts with the integer each one stands for.    *)
(***************************************************************************)
DurationParts == [h : {None, 0, 1}, m : {None, 0, 1, 2},
                  s : {None, 0, 5, 59, 60, 61}]

FormatDuration(d) ==
  <<"P", "T">>
  \o (IF d.h = None THEN <<>> ELSE Digits(d.h) \o <<"H">>)
  \o (IF d.m = None THEN <<>> ELSE Digits(d.m) \o <<"M">>)
  \o (IF d.s = None THEN <<>> ELSE Digits(d.s) \o <<"S">>)

TotalSeconds(d) ==
  Max(d.h, 0) * SecondsPerHour + Max(d.m, 0) * SecondsPerMinute + Max(d.s, 0)

CountTexts ==
  {[text |-> Digits(n), count |-> n] : n \in {0, 7, 1234}}
  \cup {[text |-> <<"1", ",", "2", "3", "4">>, count |-> 1234],
        [text |-> <<"1", "2", ".", "3", "M">>, count |-> 12300000],
        [text |-> <<"5", "0", "0", "k">>, count |-> 500000],
        [text |-> <<"2", "B">>, count |-> 2000000000],
        [text |-> <<" ", "1", ".", "5", "K", " ">>, count |-> 1500],
        [text |-> <<"N", "/", "A">>, count |-> 0],
        [text |-> <<"a", "b", "c">>, count |-> 0],
        [text |-> <<"-">>, count |-> 0],
        [text |-> <<>>, count |-> 0]}

InitParse ==
  /\ now = FetchStartTime
  /\ ticks = 0
  /\ cache = EmptyCache
  /\ daily_limit = DefaultDailyLimit
  /\ pc = [p \in Callers |-> "idle"]
  /\ loc = [p \in Callers |-> NoCall]
  /\ sent = <<>>
  /\ FetchIdle
  /\ batch = NoBatch
  /\ rpc = "idle"
  /\ resolver = NoRes
  /\ pager = NoPager
  /\ parse \in
       {[NoParse EXCEPT !.fn = "_is_short_video", !.given = d,
                        !.arg = FormatDuration(d)] : d \in DurationParts}
       \cup {[NoParse EXCEPT !.fn = "_is_short_video"]}
       \cup {[NoParse EXCEPT !.fn = f, !.given = c.count, !.arg = c.text] :
               f \in {"_parse_count", "get_sort_key"}, c \in CountTexts}

ShortVideoCall ==
  /\ parse.fn = "_is_short_video" /\ ~parse.done
  /\ parse' = [parse EXCEPT
                 !.done = TRUE,
                 !.short = IF DurationSeconds(parse.arg) = None THEN FALSE
                           ELSE IsShortVideo(DurationSeconds(parse.arg))]
  /\ UNCHANGED <<callvars, fetchvars, batch, rpc, resolver, pager>>

ParseCountCall ==
  /\ parse.fn = "_parse_count" /\ ~parse.done
  /\ parse' = [parse EXCEPT !.done = TRUE,
                            !.raised = ParseCount(parse.arg).raised,
                            !.count = ParseCount(parse.arg).count]
  /\ UNCHANGED <<callvars, fetchvars, batch, rpc, resolver, pager>>

GetSortKeyCall ==
  /\ parse.fn = "get_sort_key" /\ ~parse.done
  /\ parse' = [parse EXCEPT !.done = TRUE,
                            !.count = SortKeyInt(parse.arg)]
  /\ UNCHANGED <<callvars, fetchvars, batch, rpc, resolver, pager>>

NextParse ==
  \/ ShortVideoCall
  \/ ParseCountCall
  \/ GetSortKeyCall

SpecParse == InitParse /\ [][NextParse]_vars

\* C23: an item is a short exactly when its hours, minutes and seconds add up
\* to at most 60 seconds, 60 included, and an item without a duration is not a
\* short.
C23_ShortIffAtMostSixtySeconds ==
  (parse.fn = "_is_short_video" /\ parse.done) =>
    IF parse.arg = <<>> THEN ~parse.short
    ELSE parse.short <=> TotalSeconds(parse.given) <= 60

\* C23 witness: PT1M0S was classified as a short.
C23_Witness ==
  /\ parse.fn = "_is_short_video" /\ parse.done
  /\ parse.arg = FormatDuration([h |-> None, m |-> 1, s |-> 0])
  /\ parse.short

\* C24: a count text is coerced to the integer it stands for, and to 0 when
\* it is not a number or is missing, without raising, both where a count is
\* parsed and where it is used as a sort key.
C24_CountCoercion ==
  (parse.fn \in {"_parse_count", "get_sort_key"} /\ parse.done) =>
    ~parse.raised /\ parse.count = parse.given

(***************************************************************************)
(* The paid search endpoint and the USE_SEARCH_API toggle.                 *)
(***************************************************************************)
\* the toggle has been read (line 705) and the fetch has gone past it
PastSearchToggle ==
  fpc \notin {"w_resolve", "resolve", "channel_info", "live_probe", "search"}

\* C27: when the toggle USE_SEARCH_API is off, a fetch of a channel given by
\* its canonical id has made no call to the upstream search endpoint (the
\* 100-unit search.list) at any step
C27_NoSearchWhenDisabled ==
  (PastSearchToggle /\ ~req.use_search_api) => paid.search = 0

(***************************************************************************)
(* The playlist path after the popularity search.                          *)
(***************************************************************************)
\* the search is disabled, or has failed, or has left the working set with
\* fewer regular videos than max_videos or fewer shorts than max_shorts
PlaylistDue ==
  \/ ~req.use_search_api
  \/ req.search_failed
  \/ Len(Filter(order, RegularIds(store))) < req.max_videos
  \/ Len(Filter(order, ShortIds(store))) < req.max_shorts

\* from lines 720-730 the fetch goes to the playlist block
ProceedsToPlaylist == (fpc = "categorize" /\ PlaylistDue) => fpc' = "playlist"

\* the search step neither ends the fetch nor writes an error
SearchNotSurfaced == fpc = "search" => (fpc' = "categorize" /\ result' = result)

\* the playlist block, failed or not, keeps every entry of the working set
WorkingSetKept ==
  fpc = "playlist" =>
    /\ fpc' = "live_select"
    /\ result' = result
    /\ Len(order') >= Len(order)
    /\ SubSeq(order', 1, Len(order)) = order
    /\ \A id \in DOMAIN store : id \in DOMAIN store' /\ store'[id] = store[id]

\* the result is cut from the whole working set
ResultFromWorkingSet ==
  (result.at = "inner" /\ result.error = "none") =>
    /\ Range(result.videos) \subseteq RegularIds(store)
    /\ Range(result.shorts) \subseteq ShortIds(store)
    /\ Len(result.videos) = Min(req.max_videos, Cardinality(RegularIds(store)))
    /\ Len(result.shorts) = Min(req.max_shorts, Cardinality(ShortIds(store)))

\* C25: when the popularity search is disabled, fails, or leaves fewer regular
\* videos than max_videos or fewer shorts than max_shorts in the working set,
\* the fetch goes on to the playlist path; a failure of the search is never
\* returned as the channel's error; a failure of the playlist path leaves the
\* videos already in the working set in the result
C25_PlaylistAfterSearch ==
  /\ [][ProceedsToPlaylist]_vars
  /\ [][SearchNotSurfaced]_vars
  /\ [][WorkingSetKept]_vars
  /\ []ResultFromWorkingSet

(***************************************************************************)
(* YouTubeService.get_last_n_videos: the pages of the uploads playlist.    *)
(***************************************************************************)
ItemsPerPage == 50      \* items_per_page = 50
PageLimit == 20         \* if page_num > 20: break

\* the values of max_results: the default, the callers' 300, and values
\* around PageLimit pages of ItemsPerPage items
MaxResultsValues == {1, 20, ItemsPerPage + 1, 300, PageLimit * ItemsPerPage,
                     PageLimit * ItemsPerPage + 1}

\* how many items the upstream can answer when asked for at most asked items
PageCounts(asked) == {0} \cup ({1, asked - 1, asked} \cap (0..asked))

\* items_to_fetch = min(50, max_results - len(video_ids))
ItemsToFetch(g) == Min(ItemsPerPage, g.max_results - g.video_ids)

\* lines 334-337: page_num > 20
OverPageLimit(page_num) == page_num > PageLimit

\* return video_ids[:max_results]
Return(g) == [g EXCEPT !.at = "returned",
                       !.returned = Min(g.video_ids, g.max_results)]

InitPages ==
  /\ now = FetchStartTime
  /\ ticks = 0
  /\ cache = EmptyCache
  /\ daily_limit = DefaultDailyLimit
  /\ pc = [p \in Callers |-> "idle"]
  /\ loc = [p \in Callers |-> NoCall]
  /\ sent = <<>>
  /\ FetchIdle
  /\ batch = NoBatch
  /\ rpc = "idle"
  /\ resolver = NoRes
  /\ parse = NoParse
  /\ pager \in {[NoPager EXCEPT !.max_results = m, !.at = "first"] :
                  m \in MaxResultsValues}

\* lines 279-300 and 348-375: the first page; an exception here finds
\* video_ids empty and leaves the function as a ValueError
FirstPage(raises, page_count, token) ==
  /\ pager.at = "first"
  /\ pager' = IF raises
              THEN [pager EXCEPT !.at = "raised", !.requests = @ + 1]
              ELSE [pager EXCEPT !.at = "loop",
                                 !.requests = @ + 1,
                                 !.video_ids = Min(page_count, pager.max_results),
                                 !.page_num = 1,
                                 !.token = token]
  /\ UNCHANGED <<callvars, fetchvars, batch, rpc, resolver, parse>>

\* lines 301-346 and 377: one turn of the while loop, or the return when its
\* condition is false; an exception of the request ends the loop
NextPage(raises, page_count, token) ==
  /\ pager.at = "loop"
  /\ pager' =
       IF ~(pager.video_ids < pager.max_results) \/ ~pager.token
       THEN Return(pager)
       ELSE IF raises
       THEN Return([pager EXCEPT !.page_num = @ + 1, !.requests = @ + 1])
       ELSE LET g == [pager EXCEPT
                        !.page_num = @ + 1,
                        !.requests = @ + 1,
                        !.video_ids = @ + Min(page_count,
                                              pager.max_results - pager.video_ids),
                        !.token = token]
            IN IF page_count < ItemsToFetch(pager) \/ OverPageLimit(g.page_num)
               THEN Return(g)
               ELSE g
  /\ UNCHANGED <<callvars, fetchvars, batch, rpc, resolver, parse>>

NextPages ==
  \/ \E raises, token \in BOOLEAN : \E page_count \in PageCounts(ItemsPerPage) :
       FirstPage(raises, page_count, token)
  \/ \E raises, token \in BOOLEAN : \E page_count \in PageCounts(ItemsToFetch(pager)) :
       NextPage(raises, page_count, token)

\* the interpreter keeps running the call until it returns or raises
SpecPages == InitPages /\ [][NextPages]_vars /\ WF_vars(NextPages)

\* get_last_n_videos has returned or raised
PagesFinished == pager.at \in {"returned", "raised"}

\* C26: get_last_n_videos ends whatever pages the upstream answers, a full
\* page with a next-page token every time included; it requests at most 20
\* playlist pages in all, and it returns at most max_results ids
C26_PagesBounded ==
  /\ <>PagesFinished
  /\ [](pager.requests <= PageLimit)
  /\ [](pager.at = "returned" => pager.returned <= pager.max_results)

\* the function ends
PagesTerminate == <>PagesFinished

\* at most PageLimit + 1 requests, and at most max_results ids returned
PagesWithinOneMore ==
  /\ pager.requests <= PageLimit + 1
  /\ pager.at = "returned" => pager.returned <= pager.max_results
  /\ pager.video_ids <= pager.max_results

====
